---- MODULE Spec2Model ----
(***************************************************************************)
(* The refresh cache of the Enpal dashboard servers.                       *)
(*                                                                         *)
(* Two servers share one design: EnpalAPIServer (enpal_api_server.py, on   *)
(* top of EnpalDataFetcher) and EnpalComprehensiveAPIServer                *)
(* (enpal_comprehensive_api_server.py, on top of                           *)
(* EnpalComprehensiveDataFetcher).  Each keeps cached_data and last_update *)
(* and refreshes them in _update_data, which runs in the main thread       *)
(* (start_server's initial load), in the background thread                 *)
(* (_background_update) and in request threads (/api/data and              *)
(* /api/comprehensive when the cache is empty).  Flask runs with           *)
(* threaded=True, so every statement of one thread interleaves with the    *)
(* statements of the others; there is no lock anywhere in the code.        *)
(*                                                                         *)
(* The time-series store is the environment: it is up or down, holds rows  *)
(* or none, and its rows have a content version and may carry a            *)
(* non-numeric text in the Power.Production.Total column.                  *)
(***************************************************************************)
EXTENDS Integers, Sequences, FiniteSets, TLC

(* ---------------------------------------------------------------- bounds *)
\* request threads of the threaded Flask server
NumHandlers == 1
\* the clock takes the values 0..MaxTime
MaxTime == 1
\* content versions of the store's rows are 0..MaxVersion
MaxVersion == 0
\* how often the store changes its state in one run
MaxStoreChanges == 1
\* a header line names at most MaxCells fields and a data line carries at
\* most MaxCells values
MaxCells == 2

(* ------------------------------------------------------ program constants *)
\* get_complete_dashboard_data calls five get_*_data functions, each of
\* which runs its own query (get_latest_all_data)
SimpleQueries == 5
\* EnpalComprehensiveAPIServer._update_data calls six get_*_comprehensive
\* functions and get_all_raw_data, each of which runs its own query
ComprehensiveQueries == 7
\* self.update_interval
update_interval == 60
\* time.sleep(10) of _background_update's except branch
backoff_delay == 10
\* self.update_thread.join(timeout=5) of stop_server
join_timeout == 5
\* the status codes of the handlers
StatusOK == 200
StatusError == 500
StatusUnavailable == 503

(* ---------------------------------------------------------------- threads *)
MainThread == -1
BgThread == 0
Handlers == 1..NumHandlers
Threads == {MainThread, BgThread} \cup Handlers

Servers == {"simple", "comprehensive"}
Routes == {"data", "health", "status", "category"}

\* Python's None for last_update and for a snapshot's timestamp
None == -1

VARIABLES
    server,        \* which of the two servers this run is
    store,         \* the environment: the state of the time-series store
    storeChanges,  \* how often the store has changed its state
    now,           \* datetime.now()
    cached_data,   \* self.cached_data
    last_update,   \* self.last_update
    running,       \* self.running
    mainpc,        \* start_server: "init", "load", "serving", "stopped";
                   \* stop_server: "joining", "returned"
    bgpc,          \* _background_update: "notstarted", "loop", "cycle", "sleep", "done"
    sleepFor,      \* the argument of the time.sleep the background thread is in
    cpc,           \* per thread, the position inside _update_data
    got,           \* per thread, the category maps its cycle has fetched so far
    new_data,      \* per thread, new_data of EnpalAPIServer._update_data
    failed,        \* per thread, whether a query of its cycle returned None
    raised,        \* per thread, whether its cycle's pipeline raised
    req,           \* per request thread, the request it is serving
    response,      \* what the store does with the POST of _execute_flux_query
    query_result,  \* what _execute_flux_query has handed to its caller
    raw_fields,    \* the raw field map of get_latest_all_data / get_all_raw_data
    success,       \* what test_connection has returned
    fpc,           \* the position of the call into the fetcher
    view,          \* what the category function has returned
    tie            \* which way round() goes when the float is halfway

vars == <<server, store, storeChanges, now, cached_data, last_update, running,
          mainpc, bgpc, sleepFor, cpc, got, new_data, failed, raised, req,
          response, query_result, raw_fields, success, fpc, view, tie>>

cacheVars == <<cached_data, last_update>>
envVars == <<store, storeChanges, now>>
cycleVars == <<cpc, got, new_data, failed, raised>>
schedVars == <<running, mainpc, bgpc, sleepFor>>
serverVars == <<server, envVars, cacheVars, schedVars, cycleVars, req>>
fetcherVars == <<response, query_result, raw_fields, success, fpc, view, tie>>

(* ------------------------------------------------------------ the store *)
\* The store is down (the POST fails, times out or answers with a
\* non-success status), or up without rows in the last five minutes, or up
\* with rows of content version ver; str says that the Power.Production.Total
\* column holds a text that int() and float() reject.
Down == [up |-> FALSE, rows |-> FALSE, ver |-> 0, str |-> FALSE]
NoRows == [up |-> TRUE, rows |-> FALSE, ver |-> 0, str |-> FALSE]
Rows(v, s) == [up |-> TRUE, rows |-> TRUE, ver |-> v, str |-> s]
StoreStates == {Down, NoRows} \cup {Rows(v, s) : v \in 0..MaxVersion, s \in BOOLEAN}

\* _execute_flux_query: the response text, or None (here: Down) when the
\* request raised; nothing is raised past it
_execute_flux_query(st) == IF st.up THEN st ELSE Down

\* The raw field map: n says whether it has fields, ver which rows it was
\* parsed from, str whether Power.Production.Total was stored as a string
EmptyMap == [n |-> 0, ver |-> 0, str |-> FALSE]
_parse_csv_response(csv_data) ==
    IF csv_data.rows THEN [n |-> 1, ver |-> csv_data.ver, str |-> csv_data.str]
    ELSE EmptyMap

\* get_latest_all_data / get_all_raw_data: "if csv_response: return
\* self._parse_csv_response(csv_response)" and "return {}" otherwise
get_latest_all_data(st) ==
    LET csv_response == _execute_flux_query(st)
    IN  IF csv_response.up THEN _parse_csv_response(csv_response) ELSE EmptyMap

(* --------------------------------------------------------- the snapshots *)
NumQueries(srv) == IF srv = "simple" THEN SimpleQueries ELSE ComprehensiveQueries

\* The first category function of either server (get_energy_flow_data,
\* get_power_comprehensive) divides Power.Production.Total by 1000, which
\* raises TypeError on a string; get_all_raw_data (k = 7) computes nothing.
CategoryRaises(k, raw) == k = 1 /\ raw.str

\* A category map, by the raw field map it was computed from.  A category
\* function applied to the empty map yields a map of defaults, which is not
\* empty; the raw_data entry of the comprehensive snapshot is the raw map
\* itself and is empty when the raw map is.
CategoryMap(srv, k, raw) ==
    [empty |-> (srv = "comprehensive" /\ k = ComprehensiveQueries /\ raw.n = 0),
     src |-> raw]
EmptyCategory == [empty |-> TRUE, src |-> EmptyMap]

\* {} : self.cached_data after __init__
EmptyDict == [timestamp |-> None, online |-> FALSE, cats |-> <<>>]

\* dashboard_data of get_complete_dashboard_data and the dictionary that
\* EnpalComprehensiveAPIServer._update_data builds: status.online /
\* metadata.system_online is True
Snapshot(t, cats) == [timestamp |-> t, online |-> TRUE, cats |-> cats]

\* The payload of the except branches: online False and every category {}
OfflinePayload(srv, t) ==
    [timestamp |-> t, online |-> FALSE,
     cats |-> [k \in 1..NumQueries(srv) |-> EmptyCategory]]

\* bool(x) of a dictionary and of a datetime-or-None
TruthyDict(d) == d # EmptyDict
TruthyTime(t) == t # None


(* ------------------------------------------------------ the refresh cycle *)
\* a test that looks at the dictionary alone: "if new_data:"
ShouldPublishAny(srv, nd) == TruthyDict(nd)

\* "if new_data and new_data.get('status', {}).get('online', False)" of
\* EnpalAPIServer._update_data; EnpalComprehensiveAPIServer._update_data
\* assigns self.cached_data without a test
ShouldPublish(srv, nd) ==
    IF srv = "simple" THEN TruthyDict(nd) /\ nd.online ELSE TRUE

\* an except branch that empties the cache
ExceptCacheCleared(srv, old, t) == EmptyDict

\* What the except branch of _update_data leaves in self.cached_data:
\* EnpalAPIServer only logs, EnpalComprehensiveAPIServer stores the payload
\* with system_online False
ExceptCache(srv, old, t) ==
    IF srv = "simple" THEN old ELSE OfflinePayload(srv, t)

\* _update_data has returned to its caller and its locals are gone
IdleCycle(t) ==
    /\ cpc' = [cpc EXCEPT ![t] = "idle"]
    /\ got' = [got EXCEPT ![t] = <<>>]
    /\ new_data' = [new_data EXCEPT ![t] = EmptyDict]
    /\ failed' = [failed EXCEPT ![t] = FALSE]
    /\ raised' = [raised EXCEPT ![t] = FALSE]

\* the same, seen from the loop of _background_update: failed and raised keep
\* what happened in the call while the thread sleeps, until its next call
ReturnCycle(t) ==
    /\ cpc' = [cpc EXCEPT ![t] = "idle"]
    /\ got' = [got EXCEPT ![t] = <<>>]
    /\ new_data' = [new_data EXCEPT ![t] = EmptyDict]
    /\ UNCHANGED <<failed, raised>>

\* the call self._update_data()
BeginCycle(t) ==
    /\ cpc[t] = "idle"
    /\ cpc' = [cpc EXCEPT ![t] = "query"]
    /\ failed' = [failed EXCEPT ![t] = FALSE]
    /\ raised' = [raised EXCEPT ![t] = FALSE]
    /\ UNCHANGED <<got, new_data>>

\* One get_*_data / get_*_comprehensive call: its query, the parse of the
\* response and the category function.  An exception of the category
\* function ends the calls: get_complete_dashboard_data catches it and
\* returns the offline payload, EnpalComprehensiveAPIServer._update_data
\* enters its except branch.
QueryStep(t) ==
    /\ cpc[t] = "query"
    /\ LET k == Len(got[t]) + 1
           raw == get_latest_all_data(store)
       IN  /\ failed' = [failed EXCEPT ![t] = @ \/ ~_execute_flux_query(store).up]
           /\ IF CategoryRaises(k, raw)
              THEN /\ raised' = [raised EXCEPT ![t] = TRUE]
                   /\ got' = got
                   /\ IF server = "simple"
                      THEN /\ new_data' = [new_data EXCEPT
                                             ![t] = OfflinePayload(server, now)]
                           /\ cpc' = [cpc EXCEPT ![t] = "publish"]
                      ELSE /\ new_data' = new_data
                           /\ cpc' = [cpc EXCEPT ![t] = "except"]
              ELSE /\ got' = [got EXCEPT
                                ![t] = Append(@, CategoryMap(server, k, raw))]
                   /\ cpc' = [cpc EXCEPT ![t] =
                                IF k < NumQueries(server) THEN "query"
                                ELSE IF server = "simple" THEN "assemble"
                                ELSE "publish"]
                   /\ UNCHANGED <<new_data, raised>>
    /\ UNCHANGED <<fetcherVars, server, envVars, cacheVars, schedVars, req>>

\* get_complete_dashboard_data after its five calls: timestamp =
\* datetime.now().isoformat() and the dashboard_data dictionary
Assemble(t) ==
    /\ cpc[t] = "assemble"
    /\ new_data' = [new_data EXCEPT ![t] = Snapshot(now, got[t])]
    /\ cpc' = [cpc EXCEPT ![t] = "publish"]
    /\ UNCHANGED <<fetcherVars, server, envVars, cacheVars, schedVars, got, failed, raised, req>>

\* self.cached_data = ... of _update_data
Publish(t) ==
    /\ cpc[t] = "publish"
    /\ LET nd == IF server = "simple" THEN new_data[t] ELSE Snapshot(now, got[t])
       IN  IF ShouldPublish(server, nd)
           THEN /\ cached_data' = nd
                /\ cpc' = [cpc EXCEPT ![t] = "stamp"]
           ELSE /\ cached_data' = cached_data
                /\ cpc' = [cpc EXCEPT ![t] = "end"]
    /\ UNCHANGED <<fetcherVars, server, envVars, last_update, schedVars, got, new_data,
                   failed, raised, req>>

\* self.last_update = datetime.now(), the statement after the assignment
\* of self.cached_data
Stamp(t) ==
    /\ cpc[t] = "stamp"
    /\ last_update' = now
    /\ cpc' = [cpc EXCEPT ![t] = "end"]
    /\ UNCHANGED <<fetcherVars, server, envVars, cached_data, schedVars, got, new_data,
                   failed, raised, req>>

\* "except Exception as e" of EnpalComprehensiveAPIServer._update_data
Except(t) ==
    /\ cpc[t] = "except"
    /\ cached_data' = ExceptCache(server, cached_data, now)
    /\ cpc' = [cpc EXCEPT ![t] = "end"]
    /\ UNCHANGED <<fetcherVars, server, envVars, last_update, schedVars, got, new_data,
                   failed, raised, req>>

_update_data(t) ==
    \/ QueryStep(t)
    \/ Assemble(t)
    \/ Publish(t)
    \/ Stamp(t)
    \/ Except(t)

(* ------------------------------------------------- start_server, shutdown *)
\* start_server: "self._update_data()", the initial load
StartServer ==
    /\ mainpc = "init"
    /\ mainpc' = "load"
    /\ BeginCycle(MainThread)
    /\ UNCHANGED <<fetcherVars, server, envVars, cacheVars, running, bgpc, sleepFor, req>>

\* start_server: self.running = True, the thread is started, app.run serves
StartThread ==
    /\ mainpc = "load"
    /\ cpc[MainThread] = "end"
    /\ running' = TRUE
    /\ bgpc' = "loop"
    /\ mainpc' = "serving"
    /\ IdleCycle(MainThread)
    /\ UNCHANGED <<fetcherVars, server, envVars, cacheVars, sleepFor, req>>

\* app.run returns (KeyboardInterrupt) and "finally: self.running = False"
Shutdown ==
    /\ mainpc = "serving"
    /\ mainpc' = "stopped"
    /\ running' = FALSE
    /\ UNCHANGED <<fetcherVars, server, envVars, cacheVars, bgpc, sleepFor, cycleVars, req>>

\* stop_server: "self.running = False"; update_thread is set, so the caller
\* goes on to "self.update_thread.join(timeout=5)"
StopServer ==
    /\ mainpc = "serving"
    /\ mainpc' = "joining"
    /\ running' = FALSE
    /\ UNCHANGED <<fetcherVars, server, envVars, cacheVars, bgpc, sleepFor, cycleVars, req>>

\* a join without a timeout
JoinWaitsForThread(timeout, ended) == ended

\* Thread.join(timeout) returns when the thread has ended and, a timeout
\* given, when the timeout has passed
JoinReturns(timeout, ended) == ended \/ timeout # None

\* the join of stop_server returns, and so does stop_server
StopJoin ==
    /\ mainpc = "joining"
    /\ JoinReturns(join_timeout, bgpc = "done")
    /\ mainpc' = "returned"
    /\ UNCHANGED <<fetcherVars, server, envVars, cacheVars, running, bgpc, sleepFor, cycleVars, req>>

\* stop_server of both servers
stop_server == StopServer \/ StopJoin

(* ---------------------------------------------------- _background_update *)
\* a scheduler that runs one cycle and returns
AfterSleepReturn == "done"

\* where the thread goes when time.sleep returns: back to "while self.running"
AfterSleep == "loop"

\* the argument of the time.sleep that follows a call of _update_data:
\* self.update_interval after a call that returned, 10 after one that raised
\* out of _update_data
SleepAfter(raisedOut) == IF raisedOut THEN backoff_delay ELSE update_interval

\* "while self.running:" and the call self._update_data()
BgLoop ==
    /\ bgpc = "loop"
    /\ IF running
       THEN /\ bgpc' = "cycle"
            /\ BeginCycle(BgThread)
       ELSE /\ bgpc' = "done"
            /\ UNCHANGED cycleVars
    /\ UNCHANGED <<fetcherVars, server, envVars, cacheVars, running, mainpc, sleepFor, req>>

\* _update_data has returned (it catches every Exception itself) and the
\* thread enters time.sleep
BgSleep ==
    /\ bgpc = "cycle"
    /\ cpc[BgThread] = "end"
    /\ bgpc' = "sleep"
    /\ sleepFor' = SleepAfter(FALSE)
    /\ ReturnCycle(BgThread)
    /\ UNCHANGED <<fetcherVars, server, envVars, cacheVars, running, mainpc, req>>

\* time.sleep returns
BgWake ==
    /\ bgpc = "sleep"
    /\ bgpc' = AfterSleep
    /\ sleepFor' = 0
    /\ UNCHANGED <<fetcherVars, server, envVars, cacheVars, running, mainpc, cycleVars, req>>

_background_update ==
    \/ BgLoop
    \/ _update_data(BgThread)
    \/ BgSleep
    \/ BgWake


(* ------------------------------------------------------------ the handlers *)
\* A request thread: the route it serves, its position in the handler, the
\* dictionary it loaded from self.cached_data for jsonify (ref), the truth
\* value of self.cached_data it saw (avail), the value it loaded from
\* self.last_update (lu), the category maps it has serialised (seen), the
\* category of a /api/<category> request (k), and its answer.
IdleReq ==
    [route |-> "none", pc |-> "idle", ref |-> EmptyDict, avail |-> FALSE,
     lu |-> None, seen |-> <<>>, k |-> 0, healthy |-> FALSE, conn |-> FALSE,
     status |-> 0]

\* the handlers that call one category function of the fetcher: /api/energy
\* and /api/battery of EnpalAPIServer, /api/power ... /api/raw of
\* EnpalComprehensiveAPIServer
CategoryRoutes(srv) == IF srv = "simple" THEN 1..2 ELSE 1..ComprehensiveQueries

FirstStep(route) ==
    CASE route = "data" -> "check"
      [] route = "health" -> "h_cached"
      [] route = "status" -> "s_last"
      [] route = "category" -> "c_query"

\* a request arrives while app.run serves
Request(h) ==
    /\ mainpc = "serving"
    /\ req[h].pc = "idle"
    /\ \E route \in Routes :
         \E k \in (IF route = "category" THEN CategoryRoutes(server) ELSE {0}) :
            req' = [req EXCEPT ![h] = [IdleReq EXCEPT !.route = route,
                                                      !.pc = FirstStep(route),
                                                      !.k = k]]
    /\ UNCHANGED <<fetcherVars, server, envVars, cacheVars, schedVars, cycleVars>>

\* a handler that refreshes on every request
NeedsRefreshAlways(c) == TRUE

\* "if not self.cached_data:" of api_data and api_comprehensive
NeedsRefresh(c) == ~TruthyDict(c)

\* api_data / api_comprehensive: the test of the cache and, when it is
\* empty, the call self._update_data() in the request thread
DataCheck(h) ==
    /\ req[h].pc = "check"
    /\ IF NeedsRefresh(cached_data)
       THEN /\ BeginCycle(h)
            /\ req' = [req EXCEPT ![h].pc = "refresh"]
       ELSE /\ req' = [req EXCEPT ![h].pc = "load"]
            /\ UNCHANGED cycleVars
    /\ UNCHANGED <<fetcherVars, server, envVars, cacheVars, schedVars>>

\* the call self._update_data() of the handler has returned
DataRefreshed(h) ==
    /\ req[h].pc = "refresh"
    /\ cpc[h] = "end"
    /\ IdleCycle(h)
    /\ req' = [req EXCEPT ![h].pc = "load"]
    /\ UNCHANGED <<fetcherVars, server, envVars, cacheVars, schedVars>>

\* "jsonify(self.cached_data)": the attribute is loaded once, and jsonify
\* serialises the dictionary it was handed
DataLoad(h) ==
    /\ req[h].pc = "load"
    /\ req' = [req EXCEPT ![h].ref = cached_data, ![h].pc = "serialize"]
    /\ UNCHANGED <<fetcherVars, server, envVars, cacheVars, schedVars, cycleVars>>

\* a serialisation that goes back to self.cached_data for every category
ReadCategoryShared(held, shared, k) == shared.cats[k]

\* the category map that the serialisation reads as its k-th: the one of the
\* dictionary it holds, whatever self.cached_data has become since
ReadCategory(held, shared, k) == held.cats[k]

\* jsonify walks the dictionary, one category map after the other, and the
\* handler returns the result with the default status 200
DataSerialize(h) ==
    /\ req[h].pc = "serialize"
    /\ LET k == Len(req[h].seen) + 1
       IN  IF k <= Len(req[h].ref.cats)
           THEN req' = [req EXCEPT ![h].seen =
                          Append(@, ReadCategory(req[h].ref, cached_data, k))]
           ELSE req' = [req EXCEPT ![h].pc = "respond", ![h].status = StatusOK]
    /\ UNCHANGED <<fetcherVars, server, envVars, cacheVars, schedVars, cycleVars>>

\* a health view that looks at the dictionary alone
HealthyCacheOnly(avail, l) == avail

\* "healthy = bool(self.cached_data and self.last_update)", from the truth
\* value of the dictionary and the value of last_update
Healthy(avail, l) == avail /\ TruthyTime(l)

\* "200 if healthy else 503"
HealthStatus(healthy) == IF healthy THEN StatusOK ELSE StatusUnavailable

\* api_health: self.cached_data is loaded first; "and" loads
\* self.last_update only when the dictionary is not empty
HealthCached(h) ==
    /\ req[h].pc = "h_cached"
    /\ IF TruthyDict(cached_data)
       THEN req' = [req EXCEPT ![h].avail = TRUE, ![h].pc = "h_last"]
       ELSE req' = [req EXCEPT ![h].avail = FALSE, ![h].pc = "respond",
                               ![h].healthy = Healthy(FALSE, None),
                               ![h].status = HealthStatus(Healthy(FALSE, None))]
    /\ UNCHANGED <<fetcherVars, server, envVars, cacheVars, schedVars, cycleVars>>

HealthLast(h) ==
    /\ req[h].pc = "h_last"
    /\ req' = [req EXCEPT ![h].lu = last_update, ![h].pc = "respond",
                          ![h].healthy = Healthy(req[h].avail, last_update),
                          ![h].status = HealthStatus(Healthy(req[h].avail, last_update))]
    /\ UNCHANGED <<fetcherVars, server, envVars, cacheVars, schedVars, cycleVars>>

\* test_connection: "result is not None"
test_connection(st) == _execute_flux_query(st).up

\* api_status: the dictionary literal reads self.last_update, then
\* self.cached_data, then calls self.data_fetcher.test_connection()
StatusLast(h) ==
    /\ req[h].pc = "s_last"
    /\ req' = [req EXCEPT ![h].lu = last_update, ![h].pc = "s_cached"]
    /\ UNCHANGED <<fetcherVars, server, envVars, cacheVars, schedVars, cycleVars>>

StatusCached(h) ==
    /\ req[h].pc = "s_cached"
    /\ req' = [req EXCEPT ![h].avail = TruthyDict(cached_data), ![h].pc = "s_conn"]
    /\ UNCHANGED <<fetcherVars, server, envVars, cacheVars, schedVars, cycleVars>>

StatusConn(h) ==
    /\ req[h].pc = "s_conn"
    /\ req' = [req EXCEPT ![h].conn = test_connection(store),
                          ![h].pc = "respond", ![h].status = StatusOK]
    /\ UNCHANGED <<fetcherVars, server, envVars, cacheVars, schedVars, cycleVars>>

\* api_energy, api_battery, api_power, ...: the handler calls the category
\* function of the fetcher, which runs its own query; an exception of the
\* category function becomes the answer 500
CategoryQuery(h) ==
    /\ req[h].pc = "c_query"
    /\ LET raw == get_latest_all_data(store)
       IN  IF CategoryRaises(req[h].k, raw)
           THEN req' = [req EXCEPT ![h].pc = "respond", ![h].status = StatusError]
           ELSE req' = [req EXCEPT ![h].pc = "respond", ![h].status = StatusOK,
                          ![h].seen = <<CategoryMap(server, req[h].k, raw)>>]
    /\ UNCHANGED <<fetcherVars, server, envVars, cacheVars, schedVars, cycleVars>>

\* the answer is sent and the request thread is free again
Respond(h) ==
    /\ req[h].pc = "respond"
    /\ req' = [req EXCEPT ![h] = IdleReq]
    /\ UNCHANGED <<fetcherVars, server, envVars, cacheVars, schedVars, cycleVars>>

(* --------------------------------------------------------- the environment *)
\* the store goes down or comes back, loses its rows, gets new rows
StoreChange ==
    /\ storeChanges < MaxStoreChanges
    /\ \E st \in StoreStates \ {store} : store' = st
    /\ storeChanges' = storeChanges + 1
    /\ UNCHANGED <<fetcherVars, server, now, cacheVars, schedVars, cycleVars, req>>

\* the clock advances
Tick ==
    /\ now < MaxTime
    /\ now' = now + 1
    /\ UNCHANGED <<fetcherVars, server, store, storeChanges, cacheVars, schedVars, cycleVars, req>>

(* -------------------------------------------------------- Python's values *)
\* The values the fetcher computes with: an int n, a float (the fraction
\* n/d in lowest terms, d > 0), a str with the characters s, and the
\* exceptions an expression can end in.  Floats are modelled by the decimal
\* number they stand for; where the binary float is what decides, in the
\* halfway case of round(), the variable tie decides.
RECURSIVE Gcd(_, _)
Gcd(a, b) == IF b = 0 THEN a ELSE Gcd(b, a % b)

Abs(x) == IF x < 0 THEN -x ELSE x

RECURSIVE Pow10(_)
Pow10(k) == IF k = 0 THEN 1 ELSE 10 * Pow10(k - 1)

PyInt(n) == [t |-> "int", n |-> n, d |-> 1, s |-> <<>>]
PyFloat(n, d) ==
    LET g == Gcd(Abs(n), d)
    IN  [t |-> "float", n |-> n \div g, d |-> d \div g, s |-> <<>>]
PyStr(cs) == [t |-> "str", n |-> 0, d |-> 1, s |-> cs]
TypeError == [t |-> "TypeError", n |-> 0, d |-> 1, s |-> <<>>]
ValueError == [t |-> "ValueError", n |-> 0, d |-> 1, s |-> <<>>]
ZeroDivisionError == [t |-> "ZeroDivisionError", n |-> 0, d |-> 1, s |-> <<>>]

IsNumber(x) == x.t \in {"int", "float"}
IsException(x) == x.t \in {"TypeError", "ValueError", "ZeroDivisionError"}

\* a // b of two ints
floordiv(a, b) ==
    IF IsException(a) THEN a
    ELSE IF IsException(b) THEN b
    ELSE IF ~(IsNumber(a) /\ IsNumber(b)) THEN TypeError
    ELSE IF b.n = 0 THEN ZeroDivisionError
    ELSE PyInt((a.n * b.d) \div (a.d * b.n))

\* a / b
truediv(a, b) ==
    IF IsException(a) THEN a
    ELSE IF IsException(b) THEN b
    ELSE IF ~(IsNumber(a) /\ IsNumber(b)) THEN TypeError
    ELSE IF b.n = 0 THEN ZeroDivisionError
    ELSE IF b.n > 0 THEN PyFloat(a.n * b.d, a.d * b.n)
    ELSE PyFloat(-(a.n * b.d), a.d * (-b.n))

RECURSIVE Repeat(_, _)
Repeat(cs, k) == IF k <= 0 THEN <<>> ELSE cs \o Repeat(cs, k - 1)

\* a * b; a str times an int is the repeated str
mul(a, b) ==
    IF IsException(a) THEN a
    ELSE IF IsException(b) THEN b
    ELSE IF IsNumber(a) /\ IsNumber(b)
         THEN IF a.t = "int" /\ b.t = "int" THEN PyInt(a.n * b.n)
              ELSE PyFloat(a.n * b.n, a.d * b.d)
    ELSE IF a.t = "str" /\ b.t = "int" THEN PyStr(Repeat(a.s, b.n))
    ELSE IF a.t = "int" /\ b.t = "str" THEN PyStr(Repeat(b.s, a.n))
    ELSE TypeError

\* a + b; two strs are concatenated
add(a, b) ==
    IF IsException(a) THEN a
    ELSE IF IsException(b) THEN b
    ELSE IF IsNumber(a) /\ IsNumber(b)
         THEN IF a.t = "int" /\ b.t = "int" THEN PyInt(a.n + b.n)
              ELSE PyFloat(a.n * b.d + b.n * a.d, a.d * b.d)
    ELSE IF a.t = "str" /\ b.t = "str" THEN PyStr(a.s \o b.s)
    ELSE TypeError

\* a - b
sub(a, b) ==
    IF IsException(a) THEN a
    ELSE IF IsException(b) THEN b
    ELSE IF IsNumber(a) /\ IsNumber(b)
         THEN IF a.t = "int" /\ b.t = "int" THEN PyInt(a.n - b.n)
              ELSE PyFloat(a.n * b.d - b.n * a.d, a.d * b.d)
    ELSE TypeError

\* a > b of two numbers
gt(a, b) == a.n * b.d > b.n * a.d

\* "a >= b" as an expression
GreaterOrEqual(a, b) ==
    IF IsException(a) THEN a
    ELSE IF IsException(b) THEN b
    ELSE IF ~(IsNumber(a) /\ IsNumber(b)) THEN TypeError
    ELSE PyInt(IF gt(b, a) THEN 0 ELSE 1)

\* "a > b" as an expression: True, False or the TypeError of a str operand
Greater(a, b) ==
    IF IsException(a) THEN a
    ELSE IF IsException(b) THEN b
    ELSE IF ~(IsNumber(a) /\ IsNumber(b)) THEN TypeError
    ELSE PyInt(IF gt(a, b) THEN 1 ELSE 0)

\* bool(x): a number is true when it is not zero, a str when it is not empty
bool(x) == IF x.t = "str" THEN x.s # <<>> ELSE x.n # 0

\* a round() that cuts the digits off
roundTruncates(x, ndigits) ==
    IF x.t = "float"
    THEN PyFloat((x.n * Pow10(ndigits)) \div x.d, Pow10(ndigits))
    ELSE x

\* round(x, ndigits): an int is returned as it is, a float is rounded to the
\* nearest float with ndigits decimals
round(x, ndigits) ==
    IF IsException(x) THEN x
    ELSE IF x.t = "int" THEN x
    ELSE IF x.t # "float" THEN TypeError
    ELSE LET num == x.n * Pow10(ndigits)
             lo == num \div x.d
             rem == num - lo * x.d
             q == IF 2 * rem < x.d THEN lo
                  ELSE IF 2 * rem > x.d THEN lo + 1
                  ELSE IF tie = "up" THEN lo + 1 ELSE lo
         IN  PyFloat(q, Pow10(ndigits))

\* min(a, b) and max(a, b): the first argument unless the second is smaller
\* (larger)
min(a, b) ==
    IF IsException(a) THEN a
    ELSE IF IsException(b) THEN b
    ELSE IF ~(IsNumber(a) /\ IsNumber(b)) THEN TypeError
    ELSE IF gt(a, b) THEN b ELSE a

\* a max() that hands its second argument on
maxUnclamped(a, b) == b

max(a, b) ==
    IF IsException(a) THEN a
    ELSE IF IsException(b) THEN b
    ELSE IF ~(IsNumber(a) /\ IsNumber(b)) THEN TypeError
    ELSE IF gt(b, a) THEN b ELSE a

(* ------------------------------------------------- the text of a response *)
\* The response text is a sequence of lines and a line is the sequence of
\* its comma-separated cells, so that line.split(',') is the line itself.
\* Chars spells the cells whose characters the parser looks at.
Chars(cell) ==
    CASE cell = "" -> <<>>
      [] cell = " " -> <<" ">>
      [] cell = "A" -> <<"A">>
      [] cell = "B" -> <<"B">>
      [] cell = "0" -> <<"0">>
      [] cell = "1" -> <<"1">>
      [] cell = "5" -> <<"5">>
      [] cell = "8" -> <<"8">>
      [] cell = "10" -> <<"1", "0">>
      [] cell = "50" -> <<"5", "0">>
      [] cell = "230" -> <<"2", "3", "0">>
      [] cell = "1235" -> <<"1", "2", "3", "5">>
      [] cell = "1500" -> <<"1", "5", "0", "0">>
      [] cell = "2.5" -> <<"2", ".", "5">>
      [] cell = "0.5" -> <<"0", ".", "5">>
      [] cell = "-3" -> <<"-", "3">>
      [] cell = "1.2.3" -> <<"1", ".", "2", ".", "3">>
      [] cell = "abc" -> <<"a", "b", "c">>
      [] cell = "None" -> <<"N", "o", "n", "e">>
      [] cell = "#datatype" -> <<"#", "d", "a", "t", "a", "t", "y", "p", "e">>

Cells == {"", " ", "A", "B", "0", "1", "5", "8", "10", "50", "230", "1235",
          "1500", "2.5", "0.5", "-3", "1.2.3", "abc", "None", "#datatype"}

\* the cell with the given spelling
Cell(cs) == CHOOSE cell \in Cells : Chars(cell) = cs

RECURSIVE lstrip(_)
lstrip(cs) == IF cs # <<>> /\ Head(cs) = " " THEN lstrip(Tail(cs)) ELSE cs

RECURSIVE rstrip(_)
rstrip(cs) ==
    IF cs # <<>> /\ cs[Len(cs)] = " " THEN rstrip(SubSeq(cs, 1, Len(cs) - 1))
    ELSE cs

\* p.strip()
strip(cell) == Cell(rstrip(lstrip(Chars(cell))))

Digits == {"0", "1", "2", "3", "4", "5", "6", "7", "8", "9"}
DigitValue(c) ==
    CASE c = "0" -> 0 [] c = "1" -> 1 [] c = "2" -> 2 [] c = "3" -> 3
      [] c = "4" -> 4 [] c = "5" -> 5 [] c = "6" -> 6 [] c = "7" -> 7
      [] c = "8" -> 8 [] c = "9" -> 9

RECURSIVE DigitsValue(_)
DigitsValue(cs) ==
    IF cs = <<>> THEN 0
    ELSE 10 * DigitsValue(SubSeq(cs, 1, Len(cs) - 1)) + DigitValue(cs[Len(cs)])

AllDigits(cs) == \A i \in 1..Len(cs) : cs[i] \in Digits
Signed(cs) == cs # <<>> /\ Head(cs) \in {"-", "+"}
Unsigned(cs) == IF Signed(cs) THEN Tail(cs) ELSE cs
SignOf(cs) == IF cs # <<>> /\ Head(cs) = "-" THEN -1 ELSE 1

\* int(value): an optional sign and decimal digits, anything else is a
\* ValueError
ParseInt(cs) ==
    LET u == Unsigned(cs)
    IN  IF u # <<>> /\ AllDigits(u) THEN PyInt(SignOf(cs) * DigitsValue(u))
        ELSE ValueError

\* float(value): an optional sign, decimal digits around one point, anything
\* else is a ValueError (the cells of this model carry no exponent)
ParseFloat(cs) ==
    LET u == Unsigned(cs)
        dots == {i \in 1..Len(u) : u[i] = "."}
    IN  IF Cardinality(dots) # 1 THEN ValueError
        ELSE LET p == CHOOSE i \in dots : TRUE
                 ip == SubSeq(u, 1, p - 1)
                 fp == SubSeq(u, p + 1, Len(u))
             IN  IF AllDigits(ip) /\ AllDigits(fp) /\ Len(ip) + Len(fp) > 0
                 THEN PyFloat(SignOf(cs) * DigitsValue(ip \o fp), Pow10(Len(fp)))
                 ELSE ValueError

\* nothing is stored under the field name
Nothing == [t |-> "nothing", n |-> 0, d |-> 1, s |-> <<>>]

\* a parser that stores the text None like any other text
CoerceKeepsNone(value) ==
    LET cs == Chars(value)
    IN  IF cs = <<>> THEN Nothing
        ELSE IF "." \in {cs[i] : i \in 1..Len(cs)}
             THEN IF ParseFloat(cs) = ValueError THEN PyStr(cs) ELSE ParseFloat(cs)
        ELSE IF ParseInt(cs) = ValueError THEN PyStr(cs) ELSE ParseInt(cs)

\* The body of the parser's inner loop for one value: nothing for an empty
\* value and for the text None, float(value) when the value has a point and
\* int(value) otherwise, and the value itself when that raises ValueError
Coerce(value) ==
    LET cs == Chars(value)
    IN  IF cs = <<>> \/ value = "None" THEN Nothing
        ELSE IF "." \in {cs[i] : i \in 1..Len(cs)}
             THEN IF ParseFloat(cs) = ValueError THEN PyStr(cs) ELSE ParseFloat(cs)
        ELSE IF ParseInt(cs) = ValueError THEN PyStr(cs) ELSE ParseInt(cs)

\* {} : a raw field map without fields
EmptyRawMap == [name \in {} |-> Nothing]

\* a store that keeps the first value of a name: result.setdefault
PutIfAbsent(result, field_name, value) ==
    [name \in DOMAIN result \cup {field_name} |->
        IF name \in DOMAIN result THEN result[name] ELSE value]

\* result[field_name] = value
Put(result, field_name, value) ==
    [name \in DOMAIN result \cup {field_name} |->
        IF name = field_name THEN value ELSE result[name]]

\* a lookup that has no default: all_data.get(name) is None for an absent
\* field, and None is no number
getNone(data, name, default) == IF name \in DOMAIN data THEN data[name] ELSE Nothing

\* all_data.get(name, default)
get(data, name, default) == IF name \in DOMAIN data THEN data[name] ELSE default

\* parts[8:], every part stripped
PartsFrom8(line) ==
    IF Len(line) > 8 THEN [i \in 1..(Len(line) - 8) |-> strip(line[i + 8])]
    ELSE <<>>

\* "if line.strip()" of the list of lines: a line of blanks is dropped
IsBlank(line) == Len(line) = 1 /\ strip(line[1]) = ""

\* line.startswith('#')
IsComment(line) == Chars(line[1]) # <<>> /\ Head(Chars(line[1])) = "#"

\* line.startswith(',result,table,')
IsHeader(line) ==
    Len(line) >= 4 /\ line[1] = "" /\ line[2] = "result" /\ line[3] = "table"

\* line.startswith(',_result,')
IsData(line) == Len(line) >= 3 /\ line[1] = "" /\ line[2] = "_result"

\* "for i, field_name in enumerate(current_field_names)": the fields of one
\* data line, from the i-th on
RECURSIVE StoreFields(_, _, _, _)
StoreFields(current_field_names, values, i, result) ==
    IF i > Len(current_field_names) THEN result
    ELSE LET field_name == current_field_names[i]
             stored == IF i <= Len(values) /\ values[i] # "" /\ field_name # ""
                       THEN Coerce(values[i]) ELSE Nothing
         IN  StoreFields(current_field_names, values, i + 1,
                         IF stored = Nothing THEN result
                         ELSE Put(result, field_name, stored))

\* a loop in which the first header line names the fields of every data
\* line of the payload
RECURSIVE ParseLinesKeepNames(_, _, _)
ParseLinesKeepNames(lines, current_field_names, result) ==
    IF lines = <<>> THEN result
    ELSE LET line == Head(lines)
         IN  IF IsBlank(line) \/ IsComment(line)
             THEN ParseLinesKeepNames(Tail(lines), current_field_names, result)
             ELSE IF IsHeader(line)
             THEN ParseLinesKeepNames(
                      Tail(lines),
                      IF current_field_names # <<>> THEN current_field_names
                      ELSE SelectSeq(PartsFrom8(line), LAMBDA name : name # ""),
                      result)
             ELSE IF IsData(line) /\ current_field_names # <<>>
             THEN ParseLinesKeepNames(
                      Tail(lines), current_field_names,
                      StoreFields(current_field_names, PartsFrom8(line), 1, result))
             ELSE ParseLinesKeepNames(Tail(lines), current_field_names, result)

\* "for line in lines" with the state of the loop: the field names of the
\* last header line and the map built so far
RECURSIVE ParseLines(_, _, _)
ParseLines(lines, current_field_names, result) ==
    IF lines = <<>> THEN result
    ELSE LET line == Head(lines)
         IN  IF IsBlank(line) \/ IsComment(line)
             THEN ParseLines(Tail(lines), current_field_names, result)
             ELSE IF IsHeader(line)
             THEN ParseLines(Tail(lines),
                             SelectSeq(PartsFrom8(line), LAMBDA name : name # ""),
                             result)
             ELSE IF IsData(line) /\ current_field_names # <<>>
             THEN ParseLines(Tail(lines), current_field_names,
                             StoreFields(current_field_names, PartsFrom8(line),
                                         1, result))
             ELSE ParseLines(Tail(lines), current_field_names, result)

\* a parser whose field-name list is left over from an earlier call
ParseWithEarlierNames(csv_data) ==
    IF csv_data = <<>> THEN EmptyRawMap
    ELSE ParseLines(csv_data, <<"A">>, EmptyRawMap)

\* EnpalDataFetcher._parse_csv_response and
\* EnpalComprehensiveDataFetcher._parse_csv_response, which are the same code
Fetcher_parse_csv_response(csv_data) ==
    IF csv_data = <<>> THEN EmptyRawMap
    ELSE ParseLines(csv_data, <<>>, EmptyRawMap)

(* ------------------------------------------------------- the query client *)
\* What session.post and raise_for_status do: the request is answered with
\* a success status and a text, or raise_for_status raises HTTPError, or the
\* request raises Timeout or ConnectionError, or something else raises an
\* Exception, or the thread is interrupted (KeyboardInterrupt, which is not
\* an Exception).
PostOutcomes ==
    {"ok", "HTTPError", "Timeout", "ConnectionError", "Exception",
     "KeyboardInterrupt"}
IsRequestException(kind) == kind \in {"HTTPError", "Timeout", "ConnectionError"}
IsPyException(kind) == IsRequestException(kind) \/ kind = "Exception"

\* what a call hands to its caller: a value, None, or an exception
Returned(text) == [raised |-> "none", none |-> FALSE, text |-> text]
ReturnedNone == [raised |-> "none", none |-> TRUE, text |-> <<>>]
Propagated(kind) == [raised |-> kind, none |-> FALSE, text |-> <<>>]

\* _execute_flux_query of both fetchers: "return response.text", and
\* "return None" in "except requests.exceptions.RequestException" and in
\* "except Exception"
Fetcher_execute_flux_query(resp) ==
    IF resp.kind = "ok" THEN Returned(resp.text)
    ELSE IF IsRequestException(resp.kind) THEN ReturnedNone
    ELSE IF IsPyException(resp.kind) THEN ReturnedNone
    ELSE Propagated(resp.kind)

\* a probe that asks whether the response has a text
ProbeSucceededTruthy(result) == ~result.none /\ result.text # <<>>

\* "success = result is not None"
ProbeSucceeded(result) == ~result.none

\* test_connection of both fetchers: the probe query in a try block whose
\* "except Exception" returns False
Fetcher_test_connection(resp) ==
    LET result == Fetcher_execute_flux_query(resp)
    IN  IF result.raised = "none"
        THEN [raised |-> "none", value |-> ProbeSucceeded(result)]
        ELSE IF IsPyException(result.raised)
        THEN [raised |-> "none", value |-> FALSE]
        ELSE [raised |-> result.raised, value |-> FALSE]

\* get_latest_all_data / get_all_raw_data: "if csv_response: return
\* self._parse_csv_response(csv_response)", "return {}"
Fetcher_get_latest_all_data(result) ==
    IF ~result.none /\ result.text # <<>>
    THEN Fetcher_parse_csv_response(result.text)
    ELSE EmptyRawMap

\* nothing has been returned yet
NotReturned == [raised |-> "none", none |-> TRUE, text |-> <<>>]
NoProbe == [raised |-> "none", value |-> FALSE]
NoView == [name |-> "none", exc |-> {}, out |-> <<>>]

\* the call self._execute_flux_query(query) of get_latest_all_data
ExecuteQuery ==
    /\ fpc = "start"
    /\ query_result' = Fetcher_execute_flux_query(response)
    /\ fpc' = IF query_result'.raised = "none" THEN "queried" ELSE "raised"
    /\ UNCHANGED <<serverVars, response, raw_fields, success, view, tie>>

\* the rest of get_latest_all_data
ParseResponse ==
    /\ fpc = "queried"
    /\ raw_fields' = Fetcher_get_latest_all_data(query_result)
    /\ fpc' = "fetched"
    /\ UNCHANGED <<serverVars, response, query_result, success, view, tie>>

\* a call of test_connection
TestConnection ==
    /\ fpc = "start"
    /\ success' = Fetcher_test_connection(response)
    /\ fpc' = IF success'.raised = "none" THEN "probed" ELSE "raised"
    /\ UNCHANGED <<serverVars, response, query_result, raw_fields, view, tie>>

\* get_power_comprehensive: every field in W is divided by 1000 and rounded to
\* 3 decimals, Power.Factor is rounded only
get_power_comprehensive(all_data) ==
    [
         production_total |->
             round(truediv(get(all_data, "Power.Production.Total", PyInt(0)),
                           PyInt(1000)), 3),
         consumption_total |->
             round(truediv(get(all_data, "Power.Consumption.Total", PyInt(0)),
                           PyInt(1000)), 3),
         external_total |->
             round(truediv(get(all_data, "Power.External.Total", PyInt(0)),
                           PyInt(1000)), 3),
         house_total |->
             round(truediv(get(all_data, "Power.House.Total", PyInt(0)),
                           PyInt(1000)), 3),
         dc_string1 |->
             round(truediv(get(all_data, "Power.DC.String.1", PyInt(0)),
                           PyInt(1000)), 3),
         dc_string2 |->
             round(truediv(get(all_data, "Power.DC.String.2", PyInt(0)),
                           PyInt(1000)), 3),
         dc_total |->
             round(truediv(get(all_data, "Power.DC.Total", PyInt(0)),
                           PyInt(1000)), 3),
         ac_phase_a |->
             round(truediv(get(all_data, "Power.AC.Phase.A", PyInt(0)),
                           PyInt(1000)), 3),
         ac_phase_b |->
             round(truediv(get(all_data, "Power.AC.Phase.B", PyInt(0)),
                           PyInt(1000)), 3),
         ac_phase_c |->
             round(truediv(get(all_data, "Power.AC.Phase.C", PyInt(0)),
                           PyInt(1000)), 3),
         battery_charge_discharge |->
             round(truediv(get(all_data, "Power.Battery.Charge.Discharge", PyInt(0)),
                           PyInt(1000)), 3),
         battery_charge_discharge_set |->
             round(truediv(get(all_data, "Power.Battery.Charge.Discharge.Set", PyInt(0)),
                           PyInt(1000)), 3),
         battery_charge_max |->
             round(truediv(get(all_data, "Power.Battery.Charge.Max", PyInt(0)),
                           PyInt(1000)), 3),
         battery_discharge_max |->
             round(truediv(get(all_data, "Power.Battery.Discharge.Max", PyInt(0)),
                           PyInt(1000)), 3),
         storage_total |->
             round(truediv(get(all_data, "Power.Storage.Total", PyInt(0)),
                           PyInt(1000)), 3),
         grid_export |->
             round(truediv(get(all_data, "Power.Grid.Export", PyInt(0)),
                           PyInt(1000)), 3),
         power_factor |->
             round(get(all_data, "Power.Factor", PyInt(0)), 3),
         reactive_power |->
             round(truediv(get(all_data, "Power.Reactive", PyInt(0)),
                           PyInt(1000)), 3),
         wallbox_charging |->
             round(truediv(get(all_data, "Power.Wallbox.Connector.1.Charging", PyInt(0)),
                           PyInt(1000)), 3),
         wallbox_offered |->
             round(truediv(get(all_data, "Power.Wallbox.Connector.1.Offered", PyInt(0)),
                           PyInt(1000)), 3),
         wallbox_requested |->
             round(truediv(get(all_data, "Power.Wallbox.Connector.1.Charging.Requested", PyInt(0)),
                           PyInt(1000)), 3)]

\* get_energy_comprehensive: Energy.Battery.Charge.Load and
\* Energy.Storage.Level are handed on as they are, the others are rounded
get_energy_comprehensive(all_data) ==
    [
         battery_ah |->
             round(get(all_data, "Energy.Battery.Ah", PyInt(0)), 2),
         battery_charge_level |->
             round(get(all_data, "Energy.Battery.Charge.Level", PyInt(0)), 1),
         battery_charge_level_absolute |->
             round(get(all_data, "Energy.Battery.Charge.Level.Absolute", PyInt(0)), 1),
         battery_charge_load |->
             get(all_data, "Energy.Battery.Charge.Load", PyInt(0)),
         storage_level |->
             get(all_data, "Energy.Storage.Level", PyInt(0)),
         percent_storage_level |->
             round(get(all_data, "Percent.Storage.Level", PyInt(0)), 1),
         battery_charge_day |->
             round(get(all_data, "Energy.Battery.Charge.Day", PyInt(0)), 2),
         battery_discharge_day |->
             round(get(all_data, "Energy.Battery.Discharge.Day", PyInt(0)), 2),
         consumption_total_day |->
             round(get(all_data, "Energy.Consumption.Total.Day", PyInt(0)), 2),
         production_total_day |->
             round(get(all_data, "Energy.Production.Total.Day", PyInt(0)), 2),
         grid_export_day |->
             round(get(all_data, "Energy.Grid.Export.Day", PyInt(0)), 2),
         grid_import_day |->
             round(get(all_data, "Energy.Grid.Import.Day", PyInt(0)), 2),
         external_total_in_day |->
             round(get(all_data, "Energy.External.Total.In.Day", PyInt(0)), 2),
         external_total_out_day |->
             round(get(all_data, "Energy.External.Total.Out.Day", PyInt(0)), 2),
         storage_total_in_day |->
             round(get(all_data, "Energy.Storage.Total.In.Day", PyInt(0)), 2),
         storage_total_out_day |->
             round(get(all_data, "Energy.Storage.Total.Out.Day", PyInt(0)), 2),
         battery_charge_lifetime |->
             round(get(all_data, "Energy.Battery.Charge.Lifetime", PyInt(0)), 1),
         battery_discharge_lifetime |->
             round(get(all_data, "Energy.Battery.Discharge.Lifetime", PyInt(0)), 1),
         consumption_total_lifetime |->
             round(get(all_data, "Energy.Consumption.Total.Lifetime", PyInt(0)), 1),
         production_total_lifetime |->
             round(get(all_data, "Energy.Production.Total.Lifetime", PyInt(0)), 1),
         grid_export_lifetime |->
             round(get(all_data, "Energy.Grid.Export.Lifetime", PyInt(0)), 1),
         grid_import_lifetime |->
             round(get(all_data, "Energy.Grid.Import.Lifetime", PyInt(0)), 1),
         wallbox_charged_total |->
             round(get(all_data, "Energy.Wallbox.Connector.1.Charged.Total", PyInt(0)), 0)]

\* get_voltage_comprehensive
get_voltage_comprehensive(all_data) ==
    [
         battery |->
             round(get(all_data, "Voltage.Battery", PyInt(0)), 1),
         phase_a |->
             round(get(all_data, "Voltage.Phase.A", PyInt(0)), 1),
         phase_b |->
             round(get(all_data, "Voltage.Phase.B", PyInt(0)), 1),
         phase_c |->
             round(get(all_data, "Voltage.Phase.C", PyInt(0)), 1),
         phase_average |->
             round(truediv(add(add(get(all_data, "Voltage.Phase.A", PyInt(0)),
                                   get(all_data, "Voltage.Phase.B", PyInt(0))),
                               get(all_data, "Voltage.Phase.C", PyInt(0))),
                           PyInt(3)), 1),
         string1 |->
             round(get(all_data, "Voltage.String.1", PyInt(0)), 1),
         string2 |->
             round(get(all_data, "Voltage.String.2", PyInt(0)), 1),
         wallbox_phase_a |->
             round(get(all_data, "Voltage.Wallbox.Connector.1.Phase.A", PyInt(0)), 1),
         wallbox_phase_b |->
             round(get(all_data, "Voltage.Wallbox.Connector.1.Phase.B", PyInt(0)), 1),
         wallbox_phase_c |->
             round(get(all_data, "Voltage.Wallbox.Connector.1.Phase.C", PyInt(0)), 1)]

\* get_current_comprehensive
get_current_comprehensive(all_data) ==
    [
         battery |->
             round(get(all_data, "Current.Battery", PyInt(0)), 2),
         string1 |->
             round(get(all_data, "Current.String.1", PyInt(0)), 2),
         string2 |->
             round(get(all_data, "Current.String.2", PyInt(0)), 2),
         wallbox_phase_a |->
             round(get(all_data, "Current.Wallbox.Connector.1.Phase.A", PyInt(0)), 2),
         wallbox_phase_b |->
             round(get(all_data, "Current.Wallbox.Connector.1.Phase.B", PyInt(0)), 2),
         wallbox_phase_c |->
             round(get(all_data, "Current.Wallbox.Connector.1.Phase.C", PyInt(0)), 2)]

\* get_temperature_comprehensive
get_temperature_comprehensive(all_data) ==
    [
         battery |->
             round(get(all_data, "Temperature.Battery", PyInt(0)), 1),
         housing_inside |->
             round(get(all_data, "Temperature.Housing.Inside", PyInt(0)), 1)]

\* get_battery_comprehensive: the derived values are computed only when their
\* operands are true (not zero)
get_battery_comprehensive(all_data) ==
    LET soc == get(all_data, "Energy.Battery.Charge.Level", PyInt(0))
        voltage == get(all_data, "Voltage.Battery", PyInt(0))
        current == get(all_data, "Current.Battery", PyInt(0))
        capacity_ah == get(all_data, "Energy.Battery.Ah", PyInt(0))
        soh == get(all_data, "Battery.SOH", PyInt(100))
        \* the entries are evaluated in their order: the derived ones are
        \* reached only when round() of the four operands has not raised
        reached == IsNumber(soc) /\ IsNumber(voltage) /\ IsNumber(current)
                     /\ IsNumber(capacity_ah)
    IN  [
         soc_percent |->
             round(soc, 1),
         soh_percent |->
             round(soh, 1),
         charge_level_max |->
             get(all_data, "Battery.ChargeLevel.Max", PyInt(100)),
         charge_level_min |->
             get(all_data, "Battery.ChargeLevel.Min", PyInt(10)),
         charge_level_min_on_grid |->
             get(all_data, "Battery.ChargeLevel.MinOnGrid", PyInt(10)),
         voltage |->
             round(voltage, 1),
         current |->
             round(current, 2),
         capacity_ah |->
             round(capacity_ah, 1),
         power_kw |->
             IF ~reached THEN TypeError
             ELSE IF bool(voltage) /\ bool(current)
             THEN round(truediv(mul(voltage, current), PyInt(1000)), 3)
             ELSE PyInt(0),
         capacity_kwh |->
             IF ~reached THEN TypeError
             ELSE IF bool(capacity_ah) /\ bool(voltage)
             THEN round(truediv(mul(capacity_ah, voltage), PyInt(1000)), 1)
             ELSE PyInt(0),
         available_kwh |->
             IF ~reached THEN TypeError
             ELSE IF bool(soc) /\ bool(capacity_ah) /\ bool(voltage)
             THEN round(truediv(mul(mul(soc, capacity_ah), voltage),
                                PyInt(100000)), 1)
             ELSE PyInt(0),
         temperature |->
             round(get(all_data, "Temperature.Battery", PyInt(0)), 1),
         charged_today_kwh |->
             round(get(all_data, "Energy.Battery.Charge.Day", PyInt(0)), 2),
         discharged_today_kwh |->
             round(get(all_data, "Energy.Battery.Discharge.Day", PyInt(0)), 2),
         charged_lifetime_mwh |->
             round(get(all_data, "Energy.Battery.Charge.Lifetime", PyInt(0)), 1),
         discharged_lifetime_mwh |->
             round(get(all_data, "Energy.Battery.Discharge.Lifetime", PyInt(0)), 1)]

\* get_energy_flow_data
get_energy_flow_data(all_data) ==
    LET pv_power ==
            truediv(get(all_data, "Power.Production.Total", PyInt(0)), PyInt(1000))
        consumption_power ==
            truediv(get(all_data, "Power.Consumption.Total", PyInt(0)), PyInt(1000))
        battery_power ==
            truediv(get(all_data, "Power.Battery.Charge.Discharge", PyInt(0)),
                    PyInt(1000))
        grid_power ==
            truediv(get(all_data, "Power.External.Total", PyInt(0)), PyInt(1000))
    IN  [pv_power |-> round(pv_power, 2),
         consumption_power |-> round(consumption_power, 2),
         battery_power |-> round(battery_power, 2),
         grid_power |-> round(grid_power, 2)]

\* get_battery_data
get_battery_data(all_data) ==
    LET soc == get(all_data, "Energy.Battery.Charge.Level", PyInt(0))
        temperature == get(all_data, "Temperature.Battery", PyInt(20))
        voltage == get(all_data, "Voltage.Battery", PyInt(0))
        current == get(all_data, "Current.Battery", PyInt(0))
        capacity_ah == get(all_data, "Energy.Battery.Ah", PyInt(0))
        soh == get(all_data, "Battery.SOH", PyInt(100))
    IN  [soc |-> round(soc, 1),
         temperature |-> round(temperature, 1),
         voltage |-> round(voltage, 1),
         current |-> round(current, 1),
         capacity_ah |-> round(capacity_ah, 1),
         health |-> round(soh, 1)]

\* get_string_data: "if string1_power > 0 and string2_power > 0" guards the
\* division, and balance is 100 otherwise
get_string_data(all_data) ==
    LET string1_power ==
            truediv(get(all_data, "Power.DC.String.1", PyInt(0)), PyInt(1000))
        string2_power ==
            truediv(get(all_data, "Power.DC.String.2", PyInt(0)), PyInt(1000))
        string1_voltage == get(all_data, "Voltage.String.1", PyInt(0))
        string2_voltage == get(all_data, "Voltage.String.2", PyInt(0))
        string1_current == get(all_data, "Current.String.1", PyInt(0))
        string2_current == get(all_data, "Current.String.2", PyInt(0))
        positive1 == Greater(string1_power, PyInt(0))
        positive2 == Greater(string2_power, PyInt(0))
        balance ==
            IF IsException(positive1) THEN positive1
            ELSE IF IsException(positive2) THEN positive2
            ELSE IF bool(positive1) /\ bool(positive2)
            THEN round(mul(truediv(min(string1_power, string2_power),
                                   max(string1_power, string2_power)),
                           PyInt(100)), 1)
            ELSE PyInt(100)
    IN  [string1_power |-> round(string1_power, 2),
         string2_power |-> round(string2_power, 2),
         string1_voltage |-> round(string1_voltage, 1),
         string2_voltage |-> round(string2_voltage, 1),
         string1_current |-> round(string1_current, 1),
         string2_current |-> round(string2_current, 1),
         balance_percentage |-> balance]

\* get_system_health_data: the phase voltages default to 230, the frequency
\* to 50.0
get_system_health_data(all_data) ==
    LET inverter_temp == get(all_data, "Temperature.Housing.Inside", PyInt(0))
        grid_frequency == get(all_data, "Frequency.Grid", PyFloat(50, 1))
        voltage_a == get(all_data, "Voltage.Phase.A", PyInt(230))
        voltage_b == get(all_data, "Voltage.Phase.B", PyInt(230))
        voltage_c == get(all_data, "Voltage.Phase.C", PyInt(230))
        grid_voltage == truediv(add(add(voltage_a, voltage_b), voltage_c), PyInt(3))
        cpu_load == get(all_data, "Cpu.Load", PyInt(0))
        memory_usage == get(all_data, "Memory.Usage", PyInt(0))
    IN  [inverter_temp |-> round(inverter_temp, 1),
         grid_frequency |-> round(grid_frequency, 2),
         grid_voltage |-> round(grid_voltage, 1),
         cpu_load |-> round(cpu_load, 1),
         memory_usage |-> round(memory_usage, 1),
         system_uptime |-> PyInt(0)]

\* get_daily_summary: autarky is min(100, ...) when consumption_day > 0 and
\* 0 otherwise, and autarky_rate is max(0, autarky)
get_daily_summary(all_data) ==
    LET production_day == get(all_data, "Energy.Production.Total.Day", PyInt(0))
        consumption_day == get(all_data, "Energy.Consumption.Total.Day", PyInt(0))
        export_day == get(all_data, "Energy.Grid.Export.Day", PyInt(0))
        import_day == get(all_data, "Energy.Grid.Import.Day", PyInt(0))
        grid_export_day == sub(export_day, import_day)
        consumes == Greater(consumption_day, PyInt(0))
        self_consumption == sub(production_day, export_day)
        autarky ==
            IF IsException(grid_export_day) THEN grid_export_day
            ELSE IF IsException(consumes) THEN consumes
            ELSE IF bool(consumes)
            THEN min(PyInt(100),
                     round(mul(truediv(self_consumption, consumption_day),
                               PyInt(100)), 1))
            ELSE PyInt(0)
    IN  [production_today |-> round(production_day, 2),
         consumption_today |-> round(consumption_day, 2),
         grid_export_today |-> round(max(PyInt(0), grid_export_day), 2),
         autarky_rate |-> max(PyInt(0), autarky)]

\* The 'calculated' entry of dashboard_data in get_complete_dashboard_data,
\* computed from the maps that get_battery_data and get_string_data have
\* returned (here: for the same raw field map); an exception of either
\* function ends get_complete_dashboard_data before the entry is built.
\* battery_capacity_kwh is "... if battery['voltage'] > 0 else 12.4".
calculated(all_data) ==
    LET battery == get_battery_data(all_data)
        strings == get_string_data(all_data)
        raisedIn == {battery[key] : key \in {k \in DOMAIN battery :
                                                IsException(battery[k])}}
                    \cup {strings[key] : key \in {k \in DOMAIN strings :
                                                    IsException(strings[k])}}
    IN  IF raisedIn # {}
        THEN [total_string_power |-> CHOOSE e \in raisedIn : TRUE,
              string_balance |-> CHOOSE e \in raisedIn : TRUE,
              battery_capacity_kwh |-> CHOOSE e \in raisedIn : TRUE]
        ELSE [total_string_power |->
                  round(add(strings.string1_power, strings.string2_power), 2),
              string_balance |-> strings.balance_percentage,
              battery_capacity_kwh |->
                  IF bool(Greater(battery.voltage, PyInt(0)))
                  THEN round(truediv(mul(battery.capacity_ah, battery.voltage),
                                     PyInt(1000)), 1)
                  ELSE PyFloat(124, 10)]

\* the category functions of the two fetchers, and the calculated entry
ViewNames ==
    {"power", "energy", "voltage", "current", "temperature", "battery",
     "energy_flow", "simple_battery", "strings", "system", "daily",
     "calculated"}

CategoryFunction(name, all_data) ==
    CASE name = "power" -> get_power_comprehensive(all_data)
      [] name = "energy" -> get_energy_comprehensive(all_data)
      [] name = "voltage" -> get_voltage_comprehensive(all_data)
      [] name = "current" -> get_current_comprehensive(all_data)
      [] name = "temperature" -> get_temperature_comprehensive(all_data)
      [] name = "battery" -> get_battery_comprehensive(all_data)
      [] name = "energy_flow" -> get_energy_flow_data(all_data)
      [] name = "simple_battery" -> get_battery_data(all_data)
      [] name = "strings" -> get_string_data(all_data)
      [] name = "system" -> get_system_health_data(all_data)
      [] name = "daily" -> get_daily_summary(all_data)
      [] name = "calculated" -> calculated(all_data)

\* What the caller of a category function gets: the dictionary, or the
\* exception that an expression of the function ended in
CallCategory(name, all_data) ==
    LET out == CategoryFunction(name, all_data)
        exc == {out[key].t : key \in {k \in DOMAIN out : IsException(out[k])}}
    IN  IF exc = {} THEN [name |-> name, exc |-> {}, out |-> out]
        ELSE [name |-> name, exc |-> exc, out |-> <<>>]

\* a category function is applied to the raw field map
ApplyCategory ==
    /\ fpc = "fetched"
    /\ \E name \in ViewNames : view' = CallCategory(name, raw_fields)
    /\ fpc' = "viewed"
    /\ UNCHANGED <<serverVars, response, query_result, raw_fields, success, tie>>

(* ------------------------------------------------- the fetcher's inputs *)
\* a header line and a data line carry at most MaxCells cells after the
\* eight leading columns
SeqsUpTo(S, n) == UNION {[1..k -> S] : k \in 0..n}

\* the eight leading columns of a header line and of a data line of the
\* annotated CSV
HeaderPrefix ==
    <<"", "result", "table", "_start", "_stop", "_time", "_measurement", "tag">>
DataPrefix == <<"", "_result", "0", "t0", "t1", "t2", "m", "tag">>

FieldNameCells == {"A", "B", ""}
ValueCells == {"", " ", "1", "2.5", "-3", "abc", "1.2.3", "None"}

\* what precedes the header line: nothing, an annotation line, a blank line,
\* a data line
LeadLines ==
    {<<>>, <<<<"#datatype", "string", "long">>>>, <<<<" ">>>>,
     <<DataPrefix \o <<"1">>>>}

\* the response texts: the empty text and texts without a header line,
\* texts with one header line and at most one data line, texts with two header/data blocks, and texts with two
\* data lines under one header line
Texts ==
    LET names == SeqsUpTo(FieldNameCells \ {""}, MaxCells) \ {<<>>}
        first == SeqsUpTo({"1", "2.5"}, MaxCells)
        second == SeqsUpTo({"-3", "None"}, MaxCells)
        other == SeqsUpTo({"-3", "None", ""}, MaxCells)
    IN  LeadLines \cup
        {lead \o <<HeaderPrefix \o n>> \o rest :
            lead \in LeadLines,
            n \in SeqsUpTo(FieldNameCells, MaxCells),
            rest \in {<<>>} \cup
                     {<<DataPrefix \o values>> :
                         values \in SeqsUpTo(ValueCells, MaxCells)}} \cup
        {<<HeaderPrefix \o n1, DataPrefix \o v1, HeaderPrefix \o n2,
           DataPrefix \o v2>> :
            n1 \in names, v1 \in first, n2 \in names, v2 \in second} \cup
        {<<HeaderPrefix \o n1, DataPrefix \o v1, DataPrefix \o v2>> :
            n1 \in names, v1 \in first, v2 \in other}

Responses ==
    {[kind |-> "ok", text |-> text] : text \in Texts} \cup
    {[kind |-> kind, text |-> <<>>] : kind \in PostOutcomes \ {"ok"}}

\* the raw field maps over the given fields whose values are what the parser
\* makes of the given cells
RawMaps(fields, cells) ==
    UNION {[present -> {Coerce(cell) : cell \in cells}] : present \in SUBSET fields}

\* the raw fields that get_power_comprehensive reads
PowerRawFields ==
    {"Power.Production.Total", "Power.Consumption.Total",
     "Power.External.Total", "Power.House.Total", "Power.DC.String.1",
     "Power.DC.String.2", "Power.DC.Total", "Power.AC.Phase.A",
     "Power.AC.Phase.B", "Power.AC.Phase.C",
     "Power.Battery.Charge.Discharge", "Power.Battery.Charge.Discharge.Set",
     "Power.Battery.Charge.Max", "Power.Battery.Discharge.Max",
     "Power.Storage.Total", "Power.Grid.Export", "Power.Factor",
     "Power.Reactive", "Power.Wallbox.Connector.1.Charging",
     "Power.Wallbox.Connector.1.Offered",
     "Power.Wallbox.Connector.1.Charging.Requested"}

RawMapSamples ==
    RawMaps({"Energy.Battery.Charge.Level", "Voltage.Battery", "Current.Battery",
             "Energy.Battery.Ah"},
            {"0", "5", "50", "2.5", "-3", "abc"})
    \cup RawMaps({"Energy.Production.Total.Day", "Energy.Grid.Export.Day",
                  "Energy.Consumption.Total.Day"},
                 {"0", "5", "8", "10", "2.5", "-3", "abc"})
    \cup RawMaps({"Power.DC.String.1", "Power.DC.String.2"},
                 {"0", "5", "1235", "1500", "2.5", "-3", "abc"})
    \cup RawMaps({"Power.Production.Total", "Power.Factor"},
                 {"0", "1235", "1500", "0.5", "-3", "abc"})
    \cup RawMaps({"Energy.Battery.Charge.Load", "Energy.Storage.Level"},
                 {"0", "5", "2.5", "abc"})
    \cup RawMaps({"Voltage.Phase.A", "Voltage.Phase.B", "Voltage.Phase.C"},
                 {"0", "230", "abc"})
    \cup UNION {RawMaps({field}, {"1500", "2.5"}) : field \in PowerRawFields}

(* ------------------------------------------------------ the specification *)
\* the fetcher is not called on its own
FetcherUnused ==
    /\ response = [kind |-> "ok", text |-> <<>>]
    /\ query_result = NotReturned
    /\ raw_fields = EmptyRawMap
    /\ success = NoProbe
    /\ fpc = "unused"
    /\ view = NoView
    /\ tie = "down"

\* __init__ of either server
ServerInit ==
    /\ server \in Servers
    /\ store \in StoreStates
    /\ storeChanges = 0
    /\ now = 0
    /\ cached_data = EmptyDict
    /\ last_update = None
    /\ running = FALSE
    /\ mainpc = "init"
    /\ bgpc = "notstarted"
    /\ sleepFor = 0
    /\ cpc = [t \in Threads |-> "idle"]
    /\ got = [t \in Threads |-> <<>>]
    /\ new_data = [t \in Threads |-> EmptyDict]
    /\ failed = [t \in Threads |-> FALSE]
    /\ raised = [t \in Threads |-> FALSE]
    /\ req = [h \in Handlers |-> IdleReq]

Init == ServerInit /\ FetcherUnused

Next ==
    \/ StartServer
    \/ StartThread
    \/ Shutdown
    \/ BgLoop
    \/ BgSleep
    \/ BgWake
    \/ \E t \in Threads : _update_data(t)
    \/ \E h \in Handlers : Request(h)
    \/ \E h \in Handlers : DataCheck(h)
    \/ \E h \in Handlers : DataRefreshed(h)
    \/ \E h \in Handlers : DataLoad(h)
    \/ \E h \in Handlers : DataSerialize(h)
    \/ \E h \in Handlers : HealthCached(h)
    \/ \E h \in Handlers : HealthLast(h)
    \/ \E h \in Handlers : StatusLast(h)
    \/ \E h \in Handlers : StatusCached(h)
    \/ \E h \in Handlers : StatusConn(h)
    \/ \E h \in Handlers : CategoryQuery(h)
    \/ \E h \in Handlers : Respond(h)
    \/ StoreChange
    \/ Tick

Spec == Init /\ [][Next]_vars


\* what the scheduling of the threads guarantees: the background thread is a
\* thread of its own and is never starved, its queries end (timeout=30) and
\* its sleeps end
LiveSpec == Spec /\ WF_vars(_background_update)

\* The scheduler with a caller of stop_server.  The program of the
\* repository never calls stop_server; here another thread of the process
\* calls it while app.run serves.  The request threads are left out: they
\* have no part in what the background thread and stop_server do.
StopNext ==
    \/ StartServer
    \/ StartThread
    \/ Shutdown
    \/ StopServer
    \/ StopJoin
    \/ BgLoop
    \/ BgSleep
    \/ BgWake
    \/ \E t \in {MainThread, BgThread} : _update_data(t)
    \/ StoreChange
    \/ Tick

\* the background thread is never starved and its sleeps end; the caller
\* of stop_server is not starved either
StopSpec ==
    Init /\ [][StopNext]_vars /\ WF_vars(_background_update) /\ WF_vars(StopJoin)

\* the server is not started
ServerUnused == ServerInit /\ server = "simple" /\ store = Down

\* The fetcher on its own, from the POST to the raw field map: one call of
\* get_latest_all_data or of test_connection for every response
FetchInit ==
    /\ ServerUnused
    /\ response \in Responses
    /\ query_result = NotReturned
    /\ raw_fields = EmptyRawMap
    /\ success = NoProbe
    /\ fpc = "start"
    /\ view = NoView
    /\ tie = "down"

FetchNext == ExecuteQuery \/ ParseResponse \/ TestConnection

FetchSpec == FetchInit /\ [][FetchNext]_vars

\* The category functions on their own: one call of a category function
\* for every raw field map of the samples
ViewInit ==
    /\ ServerUnused
    /\ response = [kind |-> "ok", text |-> <<>>]
    /\ query_result = NotReturned
    /\ raw_fields \in RawMapSamples
    /\ success = NoProbe
    /\ fpc = "fetched"
    /\ view = NoView
    /\ tie \in {"down", "up"}

ViewNext == ApplyCategory

ViewSpec == ViewInit /\ [][ViewNext]_vars

(* ------------------------------------------------------------- the claims *)
\* the health view of the current cache state
HealthyNow == Healthy(TruthyDict(cached_data), last_update)

\* thread t is inside _update_data
InCycle(t) == cpc[t] \notin {"idle", "end"}

\* thread t takes a step of its refresh cycle
CycleStep(t) == cpc'[t] # cpc[t] \/ got'[t] # got[t]

\* a query of the cycle of thread t failed, or its response was parsed to
\* the empty raw field map (nothing was raised)
CycleCameUpEmpty(t) ==
    /\ ~raised[t]
    /\ \E k \in 1..Len(got[t]) : got[t][k].src.n = 0

\* C1: a refresh cycle in which a query failed, or in which a response was
\* parsed to the empty map, leaves cached_data as it was: no step of such a
\* cycle replaces cached_data by a new snapshot.
C1_EmptyCycleKeepsCache ==
    [][\A t \in Threads :
         (CycleCameUpEmpty(t) /\ CycleStep(t)) => cached_data' = cached_data]_vars

\* a snapshot all of whose category maps come from rows of the store
GoodSnapshot(d) ==
    /\ TruthyDict(d)
    /\ d.online
    /\ \A k \in 1..Len(d.cats) : d.cats[k].src.n > 0

\* C2: once a successful refresh has left a good snapshot and its
\* last_update in the cache, no step of a refresh cycle in which a query
\* failed (connection error, timeout, non-success status) changes
\* cached_data or last_update.
C2_FailedCyclesKeepCache ==
    [][\A t \in Threads :
         (GoodSnapshot(cached_data) /\ TruthyTime(last_update)
            /\ failed[t] /\ CycleStep(t))
         => UNCHANGED cacheVars]_vars

\* C3: once the health view is healthy it is healthy after every later
\* step, whatever the outcome of the refresh cycles: no step empties
\* cached_data again and no step resets last_update to None.
C3_HealthyStaysHealthy ==
    [][/\ HealthyNow => HealthyNow'
       /\ TruthyDict(cached_data) => TruthyDict(cached_data')
       /\ TruthyTime(last_update) => TruthyTime(last_update')]_vars

\* the health view is healthy and a refresh cycle of the background thread
\* with a failed query or an exception has run to its end
C3_Witness ==
    /\ HealthyNow
    /\ cpc[BgThread] = "end"
    /\ (failed[BgThread] \/ raised[BgThread])


\* C4: the category maps that a reader of cached_data has serialised are,
\* position by position, those of the one dictionary it loaded from
\* cached_data, also when _update_data has published since: a reader never
\* holds category maps of two publish cycles.
C4_ReaderSeesOneSnapshot ==
    \A h \in Handlers :
        req[h].route = "data" =>
            /\ Len(req[h].seen) <= Len(req[h].ref.cats)
            /\ \A k \in 1..Len(req[h].seen) : req[h].seen[k] = req[h].ref.cats[k]
            /\ req[h].pc = "respond" => req[h].seen = req[h].ref.cats

\* a reader has serialised a whole snapshot while another one was published
C4_Witness ==
    \E h \in Handlers :
        /\ req[h].route = "data"
        /\ req[h].pc = "respond"
        /\ TruthyDict(req[h].ref)
        /\ req[h].seen = req[h].ref.cats
        /\ cached_data.cats # req[h].ref.cats

\* C5: all category maps of the snapshot in cached_data are derived from
\* one and the same raw field map, the result of the cycle's single query.
C5_OneRawMapPerSnapshot ==
    \A j, k \in 1..Len(cached_data.cats) :
        cached_data.cats[j].src = cached_data.cats[k].src

\* request thread h is about to send a query to the store
HandlerQueries(h) ==
    \/ req[h].pc \in {"c_query", "s_conn"}
    \/ req[h].pc = "refresh" /\ cpc[h] = "query"

C7_OneRefreshAtATime ==
    Cardinality({t \in Threads : InCycle(t)}) <= 1

\* C8: no step of a refresh cycle whose pipeline has raised changes
\* cached_data or last_update.
C8_RaisedCycleKeepsCache ==
    [][\A t \in Threads :
         (raised[t] /\ CycleStep(t)) => UNCHANGED cacheVars]_vars

\* the background thread has finished a call of _update_data
BgCycleEnded == bgpc = "cycle" /\ cpc[BgThread] = "end"

\* the background thread has entered a call of _update_data
BgCycleStarted == bgpc = "cycle" /\ cpc[BgThread] = "query"

\* C9: the background thread has not returned while running is true, and
\* after every refresh cycle of the background thread, whatever its outcome,
\* either another cycle is started or running has become false.
C9_SchedulerKeepsRunning ==
    /\ [](running => bgpc # "done")
    /\ [](BgCycleEnded => <>(BgCycleStarted \/ ~running))

\* the background thread is back at its loop test, with running true, after
\* a cycle that failed or raised
C9_Witness ==
    /\ bgpc = "loop"
    /\ running
    /\ (failed[BgThread] \/ raised[BgThread])

\* C10: the answer of /api/health says healthy exactly when the handler
\* found cached_data non-empty and last_update set, its status is 200
\* exactly when it says healthy and 503 otherwise, and an answer that says
\* healthy is true of the cache at the time it is sent.
C10_HealthView ==
    \A h \in Handlers :
        (req[h].route = "health" /\ req[h].pc = "respond") =>
            /\ req[h].healthy <=> (req[h].avail /\ req[h].lu # None)
            /\ req[h].status = StatusOK <=> req[h].healthy
            /\ req[h].status = StatusUnavailable <=> ~req[h].healthy
            /\ req[h].healthy => (TruthyDict(cached_data) /\ last_update # None)

\* /api/health answers 503 although cached_data is not empty, because
\* last_update is not set
C10_Witness ==
    \E h \in Handlers :
        /\ req[h].route = "health"
        /\ req[h].pc = "respond"
        /\ req[h].avail
        /\ ~req[h].healthy
        /\ req[h].status = StatusUnavailable

\* C11: an answer of /api/data or /api/comprehensive with a success status
\* carries a snapshot (status.online / metadata.system_online true); the empty
\* dictionary and the offline payload are only ever answered with a status
\* that is not 2xx.
C11_DataAnswerNeverEmptySuccess ==
    \A h \in Handlers :
        (req[h].route = "data" /\ req[h].pc = "respond"
           /\ req[h].status = StatusOK)
        => (TruthyDict(req[h].ref) /\ req[h].ref.online)

\* a = b, and |a - b| <= num/den, of two numbers
NumEq(a, b) == a.n * b.d = b.n * a.d
Within(a, b, num, den) == Abs(a.n * b.d - b.n * a.d) * den <= num * a.d * b.d

\* the float a has at most k decimals
HasDecimals(a, k) == Pow10(k) % a.d = 0

\* C12: _execute_flux_query hands None to its caller, and raises nothing,
\* when the request ends in a connection error, a timeout or a non-success
\* status, and hands on the response text otherwise; test_connection
\* returns a boolean, True exactly when its query did not return None.
C12_QueryFailureIsReturned ==
    /\ IsRequestException(response.kind) => fpc # "raised"
    /\ fpc \in {"queried", "fetched"} =>
          /\ query_result.raised = "none"
          /\ query_result.none <=> response.kind # "ok"
          /\ ~query_result.none => query_result.text = response.text
    /\ fpc = "probed" =>
          /\ success.raised = "none"
          /\ success.value \in BOOLEAN
          /\ success.value <=> response.kind = "ok"

\* test_connection has returned False after a timeout of its query
C12_Witness ==
    /\ fpc = "probed"
    /\ response.kind = "Timeout"
    /\ ~success.value

\* the category functions of EnpalComprehensiveDataFetcher
ComprehensiveViews ==
    {"power", "energy", "voltage", "current", "temperature", "battery"}

\* C13: whatever raw field map the parser has produced, every value of a
\* category map that a category function of the comprehensive fetcher
\* returns is a number.
C13_CategoryValuesNumeric ==
    (fpc = "viewed" /\ view.name \in ComprehensiveViews /\ view.exc = {})
    => \A key \in DOMAIN view.out : IsNumber(view.out[key])

\* the cells from position 8 on of the header line and of the data line of
\* a text that ends in a header line and a data line
EndsInHeaderAndData(text) ==
    /\ Len(text) >= 2 /\ IsHeader(text[Len(text) - 1]) /\ IsData(text[Len(text)])
    /\ \A i \in 1..(Len(text) - 2) : ~IsHeader(text[i])
HeaderCells(text) ==
    SubSeq(text[Len(text) - 1], 9, Len(text[Len(text) - 1]))
DataCells(text) == SubSeq(text[Len(text)], 9, Len(text[Len(text)]))

\* the header line names n >= 1 distinct fields and the data line carries n
\* values
NamesAndValues(text) ==
    /\ EndsInHeaderAndData(text)
    /\ Len(HeaderCells(text)) >= 1
    /\ Len(DataCells(text)) = Len(HeaderCells(text))
    /\ \A i \in 1..Len(HeaderCells(text)) : HeaderCells(text)[i] # ""
    /\ \A i, j \in 1..Len(HeaderCells(text)) :
          i # j => HeaderCells(text)[i] # HeaderCells(text)[j]

\* C14 as stated: for a header line naming n distinct fields and a data line
\* carrying n non-empty values the parsed map has exactly those n names, the
\* k-th name mapped to the coerced k-th value.
C14_ParserMapsEveryName ==
    (fpc = "fetched" /\ response.kind = "ok" /\ NamesAndValues(response.text)
       /\ \A i \in 1..Len(DataCells(response.text)) :
             DataCells(response.text)[i] # "")
    => LET names == HeaderCells(response.text)
           values == DataCells(response.text)
       IN  /\ DOMAIN raw_fields = {names[i] : i \in 1..Len(names)}
           /\ \A i \in 1..Len(names) :
                 raw_fields[names[i]] = Coerce(strip(values[i]))

\* the parser stores the value: it is not blank and not the text None
IsStored(value) == strip(value) \notin {"", "None"}

\* C14 as amended: for a header line naming n distinct fields and a data
\* line carrying n values, the parsed map has exactly the names whose value
\* is neither blank nor the text None, each mapped to its coerced value: an
\* int for digits, a float for digits with a point, the text itself when
\* neither int() nor float() accepts it.  Header [A, B] with values [1, 2.5]
\* yields {A: 1 (int), B: 2.5 (float)}.
C14_ParserMapsEveryStoredName ==
    (fpc = "fetched" /\ response.kind = "ok" /\ NamesAndValues(response.text))
    => LET names == HeaderCells(response.text)
           values == DataCells(response.text)
           stored == {i \in 1..Len(names) : IsStored(values[i])}
       IN  /\ DOMAIN raw_fields = {names[i] : i \in stored}
           /\ \A i \in stored :
                 /\ values[i] = "1" => raw_fields[names[i]] = PyInt(1)
                 /\ values[i] = "-3" => raw_fields[names[i]] = PyInt(-3)
                 /\ values[i] = "2.5" => raw_fields[names[i]] = PyFloat(25, 10)
                 /\ values[i] = "abc"
                       => raw_fields[names[i]] = PyStr(<<"a", "b", "c">>)
                 /\ values[i] = "1.2.3"
                       => raw_fields[names[i]] = PyStr(<<"1", ".", "2", ".", "3">>)
           /\ (names = <<"A", "B">> /\ values = <<"1", "2.5">>)
                 => raw_fields = ("A" :> PyInt(1) @@ "B" :> PyFloat(25, 10))

\* header [A, B] with the values [None, 2.5] has been parsed to a map with
\* the one name B
C14_Witness ==
    /\ fpc = "fetched"
    /\ response.kind = "ok"
    /\ NamesAndValues(response.text)
    /\ HeaderCells(response.text) = <<"A", "B">>
    /\ DataCells(response.text) = <<"None", "2.5">>
    /\ DOMAIN raw_fields = {"B"}

\* the value of an output key for an absent source field, where it is not 0
DefaultOf(name, key) ==
    CASE name = "battery" /\ key \in {"soh_percent", "charge_level_max"} -> 100
      [] name = "battery"
           /\ key \in {"charge_level_min", "charge_level_min_on_grid"} -> 10
      [] name = "simple_battery" /\ key = "temperature" -> 20
      [] name = "simple_battery" /\ key = "health" -> 100
      [] name = "strings" /\ key = "balance_percentage" -> 100
      [] name = "system" /\ key = "grid_frequency" -> 50
      [] name = "system" /\ key = "grid_voltage" -> 230
      [] OTHER -> 0

\* C15: a category function applied to the empty raw field map raises
\* nothing, and every value of the map it returns is a number: 0, or the
\* fixed default of that key.
C15_EmptyMapGivesDefaults ==
    (fpc = "viewed" /\ DOMAIN raw_fields = {} /\ view.name # "calculated")
    => /\ view.exc = {}
       /\ \A key \in DOMAIN view.out :
             /\ IsNumber(view.out[key])
             /\ NumEq(view.out[key], PyInt(DefaultOf(view.name, key)))

\* get_system_health_data has returned for the empty raw field map
C15_Witness ==
    /\ fpc = "viewed"
    /\ DOMAIN raw_fields = {}
    /\ view.name = "system"
    /\ view.exc = {}
    /\ view.out.grid_voltage.n = 230

\* C16: the power view reports every raw field in W divided by 1000 (to the
\* 3 decimals it keeps, so that for an int w the value times 1000 is w) and
\* Power.Factor, and no other field, as it is; the energy-flow view and the
\* string view report their fields in W divided by 1000, to the 2 decimals
\* they keep; Power.Production.Total = 1500 gives production_total = 1.5.
C16_WattsReportedInKilowatts ==
    (fpc = "viewed" /\ view.exc = {})
    => /\ (view.name = "power"
             /\ \E field \in PowerRawFields : DOMAIN raw_fields = {field})
          => LET field == CHOOSE f \in PowerRawFields : DOMAIN raw_fields = {f}
                 w == raw_fields[field]
                 nonzero == {key \in DOMAIN view.out : view.out[key].n # 0}
             IN  /\ Cardinality(nonzero) <= 1
                 /\ (w.t = "int" /\ w.n # 0) => nonzero # {}
                 /\ \A key \in nonzero :
                       IF field = "Power.Factor"
                       THEN key = "power_factor" /\ NumEq(view.out[key], w)
                       ELSE /\ key # "power_factor"
                            /\ Within(view.out[key], truediv(w, PyInt(1000)),
                                      1, 2000)
                            /\ w.t = "int"
                                  => NumEq(mul(view.out[key], PyInt(1000)), w)
       /\ (view.name = "power"
             /\ get(raw_fields, "Power.Production.Total", PyInt(0)) = PyInt(1500))
          => view.out.production_total = PyFloat(15, 10)
       /\ (view.name = "energy_flow")
          => /\ Within(view.out.pv_power,
                       truediv(get(raw_fields, "Power.Production.Total", PyInt(0)),
                               PyInt(1000)), 1, 200)
             /\ Within(view.out.consumption_power,
                       truediv(get(raw_fields, "Power.Consumption.Total", PyInt(0)),
                               PyInt(1000)), 1, 200)
             /\ Within(view.out.battery_power,
                       truediv(get(raw_fields, "Power.Battery.Charge.Discharge",
                                   PyInt(0)), PyInt(1000)), 1, 200)
             /\ Within(view.out.grid_power,
                       truediv(get(raw_fields, "Power.External.Total", PyInt(0)),
                               PyInt(1000)), 1, 200)
       /\ (view.name = "strings")
          => /\ Within(view.out.string1_power,
                       truediv(get(raw_fields, "Power.DC.String.1", PyInt(0)),
                               PyInt(1000)), 1, 200)
             /\ Within(view.out.string2_power,
                       truediv(get(raw_fields, "Power.DC.String.2", PyInt(0)),
                               PyInt(1000)), 1, 200)

\* the power view has reported Power.Production.Total = 1500 as 1.5
C16_Witness ==
    /\ fpc = "viewed"
    /\ view.name = "power"
    /\ view.exc = {}
    /\ DOMAIN raw_fields = {"Power.Production.Total"}
    /\ raw_fields["Power.Production.Total"] = PyInt(1500)
    /\ view.out.production_total = PyFloat(15, 10)

\* the operands of the derived battery values, and the values of the
\* formulas
BatterySoc == get(raw_fields, "Energy.Battery.Charge.Level", PyInt(0))
BatteryVoltage == get(raw_fields, "Voltage.Battery", PyInt(0))
BatteryCurrent == get(raw_fields, "Current.Battery", PyInt(0))
BatteryCapacityAh == get(raw_fields, "Energy.Battery.Ah", PyInt(0))
BatteryPowerFormula ==
    truediv(mul(BatteryVoltage, BatteryCurrent), PyInt(1000))
BatteryAvailableFormula ==
    truediv(mul(mul(BatterySoc, BatteryCapacityAh), BatteryVoltage),
            PyInt(100000))
BatteryOperandsAreNumbers ==
    /\ IsNumber(BatterySoc)
    /\ IsNumber(BatteryVoltage)
    /\ IsNumber(BatteryCurrent)
    /\ IsNumber(BatteryCapacityAh)

C18_AutarkyInRange ==
    (fpc = "viewed" /\ view.name = "daily" /\ view.exc = {})
    => LET rate == view.out.autarky_rate
           production_day ==
               get(raw_fields, "Energy.Production.Total.Day", PyInt(0))
           export_day == get(raw_fields, "Energy.Grid.Export.Day", PyInt(0))
           consumption_day ==
               get(raw_fields, "Energy.Consumption.Total.Day", PyInt(0))
       IN  /\ IsNumber(rate)
           /\ ~gt(PyInt(0), rate)
           /\ ~gt(rate, PyInt(100))
           /\ ~gt(consumption_day, PyInt(0)) => rate.n = 0
           /\ gt(export_day, production_day) => rate.n = 0
           /\ (production_day = PyInt(5) /\ export_day = PyInt(8)
                 /\ consumption_day = PyInt(10)) => rate.n = 0

\* the daily view for production 5, export 8, consumption 10
C18_Witness ==
    /\ fpc = "viewed"
    /\ view.name = "daily"
    /\ view.exc = {}
    /\ get(raw_fields, "Energy.Production.Total.Day", PyInt(0)) = PyInt(5)
    /\ get(raw_fields, "Energy.Grid.Export.Day", PyInt(0)) = PyInt(8)
    /\ get(raw_fields, "Energy.Consumption.Total.Day", PyInt(0)) = PyInt(10)
    /\ view.out.autarky_rate.n = 0

\* the string powers in kW, and the value of the balance formula
StringPower1 ==
    truediv(get(raw_fields, "Power.DC.String.1", PyInt(0)), PyInt(1000))
StringPower2 ==
    truediv(get(raw_fields, "Power.DC.String.2", PyInt(0)), PyInt(1000))
BothStringsPositive ==
    gt(StringPower1, PyInt(0)) /\ gt(StringPower2, PyInt(0))
BalanceFormula ==
    mul(truediv(min(StringPower1, StringPower2), max(StringPower1, StringPower2)),
        PyInt(100))

\* C19 as stated: balance_percentage is min(p1,p2)/max(p1,p2)*100 when both
\* string powers are positive and 100 otherwise, lies in 0..100, and the
\* computation never divides by zero.
C19_BalanceExact ==
    /\ (fpc = "viewed" /\ view.name = "strings")
          => "ZeroDivisionError" \notin view.exc
    /\ (fpc = "viewed" /\ view.name = "strings" /\ view.exc = {})
          => /\ BothStringsPositive
                   => NumEq(view.out.balance_percentage, BalanceFormula)
             /\ ~BothStringsPositive
                   => NumEq(view.out.balance_percentage, PyInt(100))
             /\ ~gt(PyInt(0), view.out.balance_percentage)
             /\ ~gt(view.out.balance_percentage, PyInt(100))

\* C19 as amended: balance_percentage is min(p1,p2)/max(p1,p2)*100 rounded
\* to 1 decimal when both string powers are positive and 100 otherwise, lies
\* in 0..100, and the computation never divides by zero.
C19_BalanceRounded ==
    /\ (fpc = "viewed" /\ view.name = "strings")
          => "ZeroDivisionError" \notin view.exc
    /\ (fpc = "viewed" /\ view.name = "strings" /\ view.exc = {})
          => /\ BothStringsPositive
                   => /\ HasDecimals(view.out.balance_percentage, 1)
                      /\ Within(view.out.balance_percentage, BalanceFormula, 1, 20)
             /\ ~BothStringsPositive
                   => NumEq(view.out.balance_percentage, PyInt(100))
             /\ ~gt(PyInt(0), view.out.balance_percentage)
             /\ ~gt(view.out.balance_percentage, PyInt(100))

\* the string view for two positive string powers whose ratio has more
\* than one decimal
C19_Witness ==
    /\ fpc = "viewed"
    /\ view.name = "strings"
    /\ view.exc = {}
    /\ BothStringsPositive
    /\ ~NumEq(view.out.balance_percentage, BalanceFormula)

\* C20: once stop_server has set running to false the background thread
\* starts no refresh cycle any more (the one it is in may finish) and
\* eventually returns from _background_update; the join of stop_server can
\* return in every state, whatever the background thread is doing, and
\* stop_server does return.
C20_StopServerStopsScheduler ==
    /\ [][~running => ~(bgpc # "cycle" /\ bgpc' = "cycle")]_vars
    /\ [](mainpc = "joining" => ENABLED StopJoin)
    /\ (mainpc \in {"joining", "returned"}) ~> (bgpc = "done")
    /\ (mainpc = "joining") ~> (mainpc = "returned")

\* stop_server has returned while the background thread is still in the
\* sleep it was in, or entered after its cycle, when running became false
C20_Witness ==
    /\ mainpc = "returned"
    /\ ~running
    /\ bgpc = "sleep"

\* C21: the sleep the scheduler enters after a refresh cycle lasts the
\* back-off delay when the pipeline of that cycle raised an exception and
\* the refresh interval when it did not.
C21_BackoffAfterRaisedCycle ==
    bgpc = "sleep"
    => sleepFor = (IF raised[BgThread] THEN backoff_delay ELSE update_interval)

\* the cells of a line from position 8 on
CellsFrom8(line) == SubSeq(line, 9, Len(line))

\* the last position of a data line whose value is stored under the name
\* when the line is paired with the names, 0 when there is none
LastStored(names, values, name) ==
    LET at == {i \in 1..Len(names) :
                  i <= Len(values) /\ names[i] = name /\ IsStored(values[i])}
    IN  IF at = {} THEN 0 ELSE CHOOSE i \in at : \A j \in at : j <= i

\* what the parser makes of the cells of the sample texts
ValueOfCell(cell) ==
    CASE cell = "1" -> PyInt(1)
      [] cell = "-3" -> PyInt(-3)
      [] cell = "2.5" -> PyFloat(25, 10)
      [] cell = "abc" -> PyStr(<<"a", "b", "c">>)
      [] cell = "1.2.3" -> PyStr(<<"1", ".", "2", ".", "3">>)

\* the text is a header line, a data line, a second header line and a
\* second data line
IsTwoBlocks(text) ==
    /\ Len(text) = 4
    /\ IsHeader(text[1]) /\ IsData(text[2])
    /\ IsHeader(text[3]) /\ IsData(text[4])

\* C22: for a payload of two header/data blocks the parsed map holds, under
\* every name, the last value the second data line stores under it when
\* paired with the names of the second header line, else the last value the
\* first data line stores under it when paired with the names of the first
\* header line, and no other name: the names of the first header line are
\* never paired with the second data line.
C22_DataLinePairedWithLastHeader ==
    (fpc = "fetched" /\ response.kind = "ok" /\ IsTwoBlocks(response.text))
    => LET names1 == CellsFrom8(response.text[1])
           values1 == CellsFrom8(response.text[2])
           names2 == CellsFrom8(response.text[3])
           values2 == CellsFrom8(response.text[4])
       IN  \A name \in FieldNameCells \ {""} :
              LET i1 == LastStored(names1, values1, name)
                  i2 == LastStored(names2, values2, name)
              IN  IF i2 > 0
                  THEN /\ name \in DOMAIN raw_fields
                       /\ raw_fields[name] = ValueOfCell(values2[i2])
                  ELSE IF i1 > 0
                  THEN /\ name \in DOMAIN raw_fields
                       /\ raw_fields[name] = ValueOfCell(values1[i1])
                  ELSE name \notin DOMAIN raw_fields

\* header [A, B] with the values [1, 2.5], then header [B] with the values
\* [-3, -3]: A keeps 1, B is -3, and the second -3 is paired with no name
C22_Witness ==
    /\ fpc = "fetched"
    /\ response.kind = "ok"
    /\ IsTwoBlocks(response.text)
    /\ CellsFrom8(response.text[1]) = <<"A", "B">>
    /\ CellsFrom8(response.text[2]) = <<"1", "2.5">>
    /\ CellsFrom8(response.text[3]) = <<"B">>
    /\ CellsFrom8(response.text[4]) = <<"-3", "-3">>
    /\ raw_fields = ("A" :> PyInt(1) @@ "B" :> PyInt(-3))

\* no data line of the text has a header line before it
NoDataLineUnderHeader(text) ==
    \A i \in 1..Len(text) :
       IsData(text[i]) => \A j \in 1..(i - 1) : ~IsHeader(text[j])

\* the text is a data line, a header line and at most one more data line
IsDataLineFirst(text) ==
    /\ Len(text) \in {2, 3}
    /\ IsData(text[1]) /\ IsHeader(text[2])
    /\ Len(text) = 3 => IsData(text[3])

\* C23: the parser raises on no response text; a text none of whose data
\* lines follows a header line (the empty text, comments only, header lines
\* only, a data line before the header line) is parsed to the empty map;
\* and in a text of a data line, a header line and a data line the map
\* holds what the second data line stores under the names of the header
\* line and nothing else.
C23_DataLineWithoutHeaderIgnored ==
    /\ response.kind = "ok" => fpc # "raised"
    /\ (fpc = "fetched" /\ response.kind = "ok"
          /\ NoDataLineUnderHeader(response.text))
       => raw_fields = EmptyRawMap
    /\ (fpc = "fetched" /\ response.kind = "ok"
          /\ IsDataLineFirst(response.text)
          /\ \A i \in 1..Len(CellsFrom8(response.text[2])) :
                CellsFrom8(response.text[2])[i] # "")
       => LET names == CellsFrom8(response.text[2])
              values == IF Len(response.text) = 3
                        THEN CellsFrom8(response.text[3]) ELSE <<>>
          IN  \A name \in FieldNameCells \ {""} :
                 LET i == LastStored(names, values, name)
                 IN  IF i > 0
                     THEN /\ name \in DOMAIN raw_fields
                          /\ raw_fields[name] = ValueOfCell(values[i])
                     ELSE name \notin DOMAIN raw_fields

\* a data line with the value 1, then header [A] with the value None: the
\* map is empty
C23_Witness ==
    /\ fpc = "fetched"
    /\ response.kind = "ok"
    /\ IsDataLineFirst(response.text)
    /\ CellsFrom8(response.text[1]) = <<"1">>
    /\ CellsFrom8(response.text[2]) = <<"A">>
    /\ Len(response.text) = 3
    /\ CellsFrom8(response.text[3]) = <<"None">>
    /\ raw_fields = EmptyRawMap

\* the text is a header line and two data lines
IsTwoDataLines(text) ==
    Len(text) = 3 /\ IsHeader(text[1]) /\ IsData(text[2]) /\ IsData(text[3])

\* the text is a header line without an empty name, and a data line
IsOneBlock(text) ==
    /\ Len(text) = 2 /\ IsHeader(text[1]) /\ IsData(text[2])
    /\ \A i \in 1..Len(CellsFrom8(text[1])) : CellsFrom8(text[1])[i] # ""

\* C24: under every name the parsed map holds the value of the last pair
\* (name, value) of the payload whose value is neither blank nor the text
\* None (an int for digits, a float for a value with a point that float()
\* accepts, the text itself when int() or float() rejects it), and no entry
\* for a name without such a pair: a blank value and the text None store
\* nothing and leave an earlier value of the name in place, and a repeated
\* name keeps the value stored last.
C24_LastStoredValueWins ==
    /\ (fpc = "fetched" /\ response.kind = "ok" /\ IsOneBlock(response.text))
       => LET names == CellsFrom8(response.text[1])
              values == CellsFrom8(response.text[2])
          IN  \A name \in FieldNameCells \ {""} :
                 LET i == LastStored(names, values, name)
                 IN  IF i > 0
                     THEN /\ name \in DOMAIN raw_fields
                          /\ raw_fields[name] = ValueOfCell(values[i])
                          /\ raw_fields[name].t =
                                (CASE values[i] \in {"1", "-3"} -> "int"
                                   [] values[i] = "2.5" -> "float"
                                   [] OTHER -> "str")
                     ELSE name \notin DOMAIN raw_fields
    /\ (fpc = "fetched" /\ response.kind = "ok"
          /\ IsTwoDataLines(response.text))
       => LET names == CellsFrom8(response.text[1])
              values1 == CellsFrom8(response.text[2])
              values2 == CellsFrom8(response.text[3])
          IN  \A name \in FieldNameCells \ {""} :
                 LET i1 == LastStored(names, values1, name)
                     i2 == LastStored(names, values2, name)
                 IN  IF i2 > 0
                     THEN /\ name \in DOMAIN raw_fields
                          /\ raw_fields[name] = ValueOfCell(values2[i2])
                     ELSE IF i1 > 0
                     THEN /\ name \in DOMAIN raw_fields
                          /\ raw_fields[name] = ValueOfCell(values1[i1])
                     ELSE name \notin DOMAIN raw_fields

\* header [A, A] with the values [1, 2.5] and then [None, ""]: A is 2.5
C24_Witness ==
    /\ fpc = "fetched"
    /\ response.kind = "ok"
    /\ IsTwoDataLines(response.text)
    /\ CellsFrom8(response.text[1]) = <<"A", "A">>
    /\ CellsFrom8(response.text[2]) = <<"1", "2.5">>
    /\ CellsFrom8(response.text[3]) = <<"None", "">>
    /\ raw_fields = ("A" :> PyFloat(25, 10))

\* C25: the battery capacity in kWh that the battery view (capacity_kwh) and
\* the calculated entry of the dashboard payload (battery_capacity_kwh)
\* report is 0 when capacity_ah or voltage is 0 and capacity_ah*voltage/1000,
\* to the one decimal the views keep, otherwise.
C25_CapacityKwh ==
    (fpc = "viewed" /\ view.exc = {} /\ view.name \in {"battery", "calculated"})
    => LET reported == IF view.name = "battery" THEN view.out.capacity_kwh
                       ELSE view.out.battery_capacity_kwh
       IN  /\ (BatteryCapacityAh.n = 0 \/ BatteryVoltage.n = 0)
                 => reported.n = 0
           /\ (BatteryCapacityAh.n # 0 /\ BatteryVoltage.n # 0)
                 => Within(reported,
                           truediv(mul(BatteryCapacityAh, BatteryVoltage),
                                   PyInt(1000)), 1, 20)

\* the mean of the three phase voltages, an absent phase counted as 0
PhaseMean ==
    truediv(add(add(get(raw_fields, "Voltage.Phase.A", PyInt(0)),
                    get(raw_fields, "Voltage.Phase.B", PyInt(0))),
                get(raw_fields, "Voltage.Phase.C", PyInt(0))),
            PyInt(3))

\* C26: phase_average of the voltage view and grid_voltage of the system
\* view are the arithmetic mean of the three phase voltages, to the one
\* decimal the views keep, a phase voltage that is absent from the raw field
\* map counted as 0.
C26_PhaseAverageIsMean ==
    (fpc = "viewed" /\ view.exc = {} /\ view.name \in {"voltage", "system"})
    => LET reported == IF view.name = "voltage" THEN view.out.phase_average
                       ELSE view.out.grid_voltage
       IN  Within(reported, PhaseMean, 1, 20)

\* C27: a handler of /api/health or /api/status that has found cached_data
\* not empty has not read None from last_update.
C27_CacheAndStampReadAsPair ==
    \A h \in Handlers :
        (req[h].pc = "respond" /\ req[h].route \in {"health", "status"}
           /\ req[h].avail)
        => TruthyTime(req[h].lu)

\* C28: no step replaces the snapshot held in cached_data by a snapshot
\* with an earlier capture timestamp.
C28_CaptureTimeNeverDecreases ==
    [][(TruthyDict(cached_data) /\ TruthyDict(cached_data'))
          => cached_data'.timestamp >= cached_data.timestamp]_vars

\* C29: for a payload of one header line and one data line, every value of
\* the parsed map stands under a name N for which the header line has N at
\* a position from 8 on at which the data line has that value, also when
\* the header line has empty cells among these positions.
C29_ValueFromColumnOfName ==
    (fpc = "fetched" /\ response.kind = "ok" /\ Len(response.text) = 2
       /\ IsHeader(response.text[1]) /\ IsData(response.text[2]))
    => LET names == CellsFrom8(response.text[1])
           values == CellsFrom8(response.text[2])
       IN  \A name \in DOMAIN raw_fields :
              \E i \in 1..Len(names) :
                 /\ names[i] = name
                 /\ i <= Len(values)
                 /\ IsStored(values[i])
                 /\ raw_fields[name] = ValueOfCell(values[i])

\* C30: in EnpalAPIServer, cached_data is empty or a snapshot with
\* status.online true, and so is the dictionary that the handler of
\* /api/data has loaded from it to answer.
C30_CachedSnapshotIsOnline ==
    server = "simple"
    => /\ TruthyDict(cached_data) => cached_data.online
       /\ \A h \in Handlers :
             (req[h].route = "data" /\ req[h].pc \in {"serialize", "respond"}
                /\ TruthyDict(req[h].ref))
             => req[h].ref.online

\* a refresh cycle of EnpalAPIServer whose pipeline raised has ended, its
\* payload says online false, and cached_data holds an online snapshot
C30_Witness ==
    /\ server = "simple"
    /\ \E t \in Threads :
          /\ raised[t]
          /\ cpc[t] = "end"
          /\ TruthyDict(new_data[t])
          /\ ~new_data[t].online
    /\ TruthyDict(cached_data)
    /\ cached_data.online

====
